---- MODULE Spec2Model ----
(***************************************************************************)
(* The command-dispatch / IPC / daemon-lifecycle core of the `tab` CLI.    *)
(*                                                                         *)
(*   src/cli/src/ipc.rs     wire codec, transport connector, IPC client    *)
(*   src/cli/src/daemon.rs  daemon supervisor (ensure_daemon_running)      *)
(*   src/cli/src/main.rs    run(): one CLI invocation                      *)
(*   src/cli/src/types.rs   Command, CommandResponse, IpcMessage           *)
(*                                                                         *)
(* Bytes on the wire are modelled as tokens: the newline delimiter, the    *)
(* braces of the outermost JSON object, one token per top-level member of  *)
(* that object, and a junk token for anything that is not JSON.  JSON      *)
(* values are tagged records.  Time is in milliseconds.                    *)
(***************************************************************************)
EXTENDS Integers, Sequences, FiniteSets, TLC

-----------------------------------------------------------------------------
(* Rust's Option and Result.                                               *)

None == [some |-> FALSE]
Some(v) == [some |-> TRUE, v |-> v]

Ok(v) == [ok |-> TRUE, v |-> v]
Err(kind, msg) == [ok |-> FALSE, kind |-> kind, msg |-> msg]

Unit == "unit"

-----------------------------------------------------------------------------
(* serde_json::Value                                                       *)

JNull == [j |-> "null"]
JStr(s) == [j |-> "str", s |-> s]
JBool(b) == [j |-> "bool", b |-> b]
JObj(o) == [j |-> "obj", o |-> o]
JNum(n) == [j |-> "num", n |-> n]
JArr(a) == [j |-> "arr", a |-> a]

IsStr(v) == v.j = "str"
IsBool(v) == v.j = "bool"
IsObj(v) == v.j = "obj"
Has(v, k) == IsObj(v) /\ k \in DOMAIN v.o

\* CliError::exit_code
exit_code(e) ==
    CASE e.kind = "DaemonNotRunning" -> 2
      [] e.kind \in {"ConnectionFailed", "ConnectionTimeout"} -> 3
      [] e.kind \in {"CommandFailed", "CommandTimeout"} -> 1
      [] e.kind = "InvalidArguments" -> 64
      [] e.kind = "InvalidSession" -> 65
      [] e.kind = "ProtocolError" -> 76
      [] e.kind = "IoError" -> 74
      [] e.kind = "SerializationError" -> 65

-----------------------------------------------------------------------------
(* Bytes.                                                                  *)

MESSAGE_DELIMITER == [t |-> "nl"]
LBrace == [t |-> "{"]
RBrace == [t |-> "}"]
Member(k, v) == [t |-> "member", k |-> k, v |-> v]
Junk == [t |-> "junk"]

IpcMessageType == {"command", "response", "ping", "pong"}

IpcMessage(ty, payload) == [message_type |-> ty, payload |-> payload]

\* An envelope that leaves a None payload out.
to_vec_skips_none(message) ==
    << LBrace, Member("type", JStr(message.message_type)) >>
    \o (IF message.payload.some THEN << Member("payload", message.payload.v) >> ELSE << >>)
    \o << RBrace >>

\* serde_json::to_vec(&IpcMessage): both members are always written; a None
\* payload is written as null (the field has no skip_serializing_if).
to_vec(message) ==
    << LBrace,
       Member("type", JStr(message.message_type)),
       Member("payload", IF message.payload.some THEN message.payload.v ELSE JNull),
       RBrace >>

serialize_message(message) == Ok(Append(to_vec(message), MESSAGE_DELIMITER))

Members(data, k) ==
    {i \in 2..(Len(data) - 1) : data[i].t = "member" /\ data[i].k = k}

IsObjectText(data) ==
    /\ Len(data) >= 2
    /\ data[1] = LBrace
    /\ data[Len(data)] = RBrace
    /\ \A i \in 2..(Len(data) - 1) : data[i].t = "member"

\* serde_json::from_slice::<IpcMessage>: the text must be one JSON object; "type"
\* is required, once, and one of the four kinds; "payload" is optional (a missing
\* Option field is None, null is None); unknown members are ignored.
deserialize_message(data) ==
    IF ~IsObjectText(data) THEN Err("SerializationError", "expected value")
    ELSE LET ty == Members(data, "type")
             pl == Members(data, "payload")
         IN  IF ty = {} THEN Err("SerializationError", "missing field type")
             ELSE IF Cardinality(ty) > 1 THEN Err("SerializationError", "duplicate field type")
             ELSE IF Cardinality(pl) > 1 THEN Err("SerializationError", "duplicate field payload")
             ELSE LET tv == data[CHOOSE i \in ty : TRUE].v
                  IN  IF ~IsStr(tv) THEN Err("SerializationError", "invalid type")
                      ELSE IF tv.s \notin IpcMessageType THEN Err("SerializationError", "unknown variant")
                      ELSE LET pv == IF pl = {} THEN JNull ELSE data[CHOOSE i \in pl : TRUE].v
                           IN  Ok(IpcMessage(tv.s, IF pv = JNull THEN None ELSE Some(pv)))

-----------------------------------------------------------------------------
(* The peer of one connection: whether it takes the client's write, the    *)
(* bytes it sends back, and whether it then closes the stream (eof) or     *)
(* keeps it open without sending more.  The bytes arrive in one piece, or  *)
(* in the pieces that end at the positions in cuts.                        *)

Peer(takes, bytes, eof) == [takes |-> takes, bytes |-> bytes, eof |-> eof, cuts |-> {}]

\* The pieces the stream arrives in: what one read of the socket returns.
RECURSIVE Split(_, _)
Split(bytes, cuts) ==
    IF bytes = <<>> THEN <<>>
    ELSE IF cuts = {} THEN <<bytes>>
    ELSE LET c == CHOOSE x \in cuts : \A y \in cuts : x <= y
         IN  <<SubSeq(bytes, 1, c)>>
                \o Split(SubSeq(bytes, c + 1, Len(bytes)), {x - c : x \in cuts \ {c}})

send_bytes(peer, data) ==
    IF peer.takes THEN Ok(Unit) ELSE Err("IoError", "broken pipe")

FirstDelimiter(bytes) ==
    IF \E i \in 1..Len(bytes) : bytes[i] = MESSAGE_DELIMITER
    THEN CHOOSE i \in 1..Len(bytes) :
            /\ bytes[i] = MESSAGE_DELIMITER
            /\ \A k \in 1..(i - 1) : bytes[k] # MESSAGE_DELIMITER
    ELSE 0

\* BufReader::read_until(MESSAGE_DELIMITER, &mut buf): piece after piece is
\* appended to buf, up to and including the first delimiter, or to the end of
\* what the peer sends.
RECURSIVE read_until(_, _)
read_until(pieces, buf) ==
    IF pieces = <<>> THEN buf
    ELSE LET d == FirstDelimiter(Head(pieces))
         IN  IF d > 0 THEN buf \o SubSeq(Head(pieces), 1, d)
             ELSE read_until(Tail(pieces), buf \o Head(pieces))

\* A reader that takes the end of the stream for the end of the frame.
read_message_accepts_truncated(peer) ==
    LET buf == read_until(Split(peer.bytes, peer.cuts), <<>>)
        delimited == Len(buf) > 0 /\ buf[Len(buf)] = MESSAGE_DELIMITER
    IN  IF ~delimited /\ ~peer.eof THEN Err("IoError", "timed out")
        ELSE IF Len(buf) = 0 THEN Err("ProtocolError", "empty response")
        ELSE IF ~delimited THEN Ok(buf)
        ELSE Ok(SubSeq(buf, 1, Len(buf) - 1))

\* A reader that leaves the delimiter in the frame.
read_message_keeps_delimiter(peer) ==
    LET buf == read_until(Split(peer.bytes, peer.cuts), <<>>)
        delimited == Len(buf) > 0 /\ buf[Len(buf)] = MESSAGE_DELIMITER
    IN  IF ~delimited /\ ~peer.eof THEN Err("IoError", "timed out")
        ELSE IF Len(buf) = 0 THEN Err("ProtocolError", "empty response")
        ELSE IF ~delimited THEN Err("ProtocolError", "missing message delimiter")
        ELSE Ok(buf)

\* A reader without the test for zero bytes.
read_message_no_empty_test(peer) ==
    LET buf == read_until(Split(peer.bytes, peer.cuts), <<>>)
        delimited == Len(buf) > 0 /\ buf[Len(buf)] = MESSAGE_DELIMITER
    IN  IF ~delimited /\ ~peer.eof THEN Err("IoError", "timed out")
        ELSE IF ~delimited THEN Err("ProtocolError", "missing message delimiter")
        ELSE Ok(SubSeq(buf, 1, Len(buf) - 1))

\* read_message: a stream that stays open without a delimiter ends in the read
\* timeout, an io::Error that read_until returns and ? passes on.
read_message(peer) ==
    LET buf == read_until(Split(peer.bytes, peer.cuts), <<>>)
        delimited == Len(buf) > 0 /\ buf[Len(buf)] = MESSAGE_DELIMITER
    IN  IF ~delimited /\ ~peer.eof THEN Err("IoError", "timed out")
        ELSE IF Len(buf) = 0 THEN Err("ProtocolError", "empty response")
        ELSE IF ~delimited THEN Err("ProtocolError", "missing message delimiter")
        ELSE Ok(SubSeq(buf, 1, Len(buf) - 1))

\* Whether the read on this connection lasts until the read timeout.
ReadBlocks(peer) == peer.takes /\ FirstDelimiter(peer.bytes) = 0 /\ ~peer.eof

-----------------------------------------------------------------------------
(* The listening address: no socket file ("absent"), a socket file nobody  *)
(* listens on ("stale"), the daemon ("serving"), or some other listener    *)
(* ("rogue") that may answer anything.                                     *)

Listeners == {"absent", "stale", "serving", "rogue"}

\* connect_to_daemon, unix
\* A connect that reports every failure to connect as a daemon that is not
\* running.
connect_to_daemon_not_running(l) ==
    IF l \in {"absent", "stale"} THEN Err("DaemonNotRunning", "socket not found")
    ELSE Ok(Unit)

\* The calls of UnixStream::connect in connect_to_daemon: none when
\* socket_path.exists() is false.
connects(l) == IF l = "absent" THEN 0 ELSE 1

connect_to_daemon(l) ==
    IF l = "absent" THEN Err("DaemonNotRunning", "socket not found")
    ELSE IF l = "stale" THEN Err("ConnectionFailed", "connection refused")
    ELSE Ok(Unit)

\* A client that takes a response envelope for a pong as well.
matches_pong_or_response(response) == response.message_type \in {"pong", "response"}

\* matches!(response.message_type, IpcMessageType::Pong)
matches_pong(response) == response.message_type = "pong"

ping(l, peer) ==
    LET stream == connect_to_daemon(l)
    IN  IF ~stream.ok THEN stream
        ELSE LET message == IpcMessage("ping", None)
                 bytes == serialize_message(message)
             IN  IF ~bytes.ok THEN bytes
                 ELSE LET sent == send_bytes(peer, bytes.v)
                      IN  IF ~sent.ok THEN sent
                          ELSE LET response_bytes == read_message(peer)
                               IN  IF ~response_bytes.ok THEN response_bytes
                                   ELSE LET response == deserialize_message(response_bytes.v)
                                        IN  IF ~response.ok THEN response
                                            ELSE Ok(matches_pong(response.v))

-----------------------------------------------------------------------------
(* Command and CommandResponse (types.rs).                                 *)

\* CommandType with #[serde(rename_all = "snake_case")]: the wire name of each
\* variant.
rename_all_snake_case ==
    [Navigate |-> "navigate", Open |-> "open", Back |-> "back", Forward |-> "forward",
     Reload |-> "reload", Close |-> "close", Snapshot |-> "snapshot", Click |-> "click",
     Dblclick |-> "dblclick", Fill |-> "fill", Type |-> "type", Press |-> "press",
     Hover |-> "hover", Focus |-> "focus", Check |-> "check", Uncheck |-> "uncheck",
     Select |-> "select", Scroll |-> "scroll", Scrollintoview |-> "scrollintoview",
     Get |-> "get", Is |-> "is", Find |-> "find", Drag |-> "drag", Upload |-> "upload",
     Mouse |-> "mouse", Wait |-> "wait", Tab |-> "tab", TabNew |-> "tab_new",
     TabClose |-> "tab_close", TabSwitch |-> "tab_switch", TabList |-> "tab_list",
     Screenshot |-> "screenshot", Pdf |-> "pdf", Eval |-> "eval"]

CommandType == DOMAIN rename_all_snake_case

\* The struct literal of Command as the client and the builder write it
\* (ipc.rs 380-387, commands/mod.rs 72-79): profile is an Option<String>.
Command(id, session_id, profile, command_type, params, timestamp) ==
    [id |-> id, session_id |-> session_id, profile |-> profile,
     command_type |-> command_type, params |-> params, timestamp |-> timestamp]

\* The member that profile adds to the wire object: none when there is no
\* profile.
profile_member(command) ==
    IF command.profile.some THEN [profile |-> JStr(command.profile.v)] ELSE <<>>

\* A Command whose params are never written (skip_serializing).
params_member_skipped(command) == <<>>

\* The member that params adds: none for None (skip_serializing_if).
params_member(command) ==
    IF command.params.some THEN [params |-> command.params.v] ELSE <<>>

\* serde_json::to_value(command): camelCase names, "type" for command_type.
command_to_value(command) ==
    JObj([id |-> JStr(command.id), sessionId |-> JStr(command.session_id),
          type |-> JStr(rename_all_snake_case[command.command_type]),
          timestamp |-> JStr(command.timestamp)]
         @@ profile_member(command) @@ params_member(command))

\* serde_json::from_value::<Command> (derive(Deserialize)): id, sessionId, type
\* and timestamp are required; a missing or null profile or params is None.
command_from_value(payload) ==
    IF ~IsObj(payload) THEN Err("SerializationError", "invalid type")
    ELSE IF \E k \in {"id", "sessionId", "type", "timestamp"} : ~Has(payload, k)
         THEN Err("SerializationError", "missing field")
    ELSE IF \E k \in {"id", "sessionId", "type", "timestamp"} : ~IsStr(payload.o[k])
         THEN Err("SerializationError", "invalid type")
    ELSE IF \A ty \in CommandType : rename_all_snake_case[ty] # payload.o.type.s
         THEN Err("SerializationError", "unknown variant")
    ELSE IF Has(payload, "profile") /\ payload.o.profile # JNull /\ ~IsStr(payload.o.profile)
         THEN Err("SerializationError", "invalid type")
    ELSE Ok(Command(
            payload.o.id.s,
            payload.o.sessionId.s,
            IF Has(payload, "profile") /\ payload.o.profile # JNull
                THEN Some(payload.o.profile.s) ELSE None,
            CHOOSE ty \in CommandType : rename_all_snake_case[ty] = payload.o.type.s,
            IF Has(payload, "params") /\ payload.o.params # JNull
                THEN Some(payload.o.params) ELSE None,
            payload.o.timestamp.s))

CommandResponse(id, success, data, error) ==
    [id |-> id, success |-> success, data |-> data, error |-> error]

\* A decoder that keeps data only for a response that reports success.
command_response_from_value_drops_data(payload) ==
    IF ~IsObj(payload) THEN Err("SerializationError", "invalid type")
    ELSE IF ~Has(payload, "id") THEN Err("SerializationError", "missing field id")
    ELSE IF ~IsStr(payload.o.id) THEN Err("SerializationError", "invalid type")
    ELSE IF ~Has(payload, "success") THEN Err("SerializationError", "missing field success")
    ELSE IF ~IsBool(payload.o.success) THEN Err("SerializationError", "invalid type")
    ELSE IF Has(payload, "error") /\ payload.o.error # JNull /\ ~IsStr(payload.o.error)
         THEN Err("SerializationError", "invalid type")
    ELSE Ok(CommandResponse(
            payload.o.id.s,
            payload.o.success.b,
            IF payload.o.success.b /\ Has(payload, "data") /\ payload.o.data # JNull
                THEN Some(payload.o.data) ELSE None,
            IF Has(payload, "error") /\ payload.o.error # JNull
                THEN Some(payload.o.error.s) ELSE None))

\* serde_json::from_value::<CommandResponse>: id (a string) and success (a bool)
\* are required; data is any value, error a string; a missing or null data or
\* error is None; unknown members are ignored.
command_response_from_value(payload) ==
    IF ~IsObj(payload) THEN Err("SerializationError", "invalid type")
    ELSE IF ~Has(payload, "id") THEN Err("SerializationError", "missing field id")
    ELSE IF ~IsStr(payload.o.id) THEN Err("SerializationError", "invalid type")
    ELSE IF ~Has(payload, "success") THEN Err("SerializationError", "missing field success")
    ELSE IF ~IsBool(payload.o.success) THEN Err("SerializationError", "invalid type")
    ELSE IF Has(payload, "error") /\ payload.o.error # JNull /\ ~IsStr(payload.o.error)
         THEN Err("SerializationError", "invalid type")
    ELSE Ok(CommandResponse(
            payload.o.id.s,
            payload.o.success.b,
            IF Has(payload, "data") /\ payload.o.data # JNull
                THEN Some(payload.o.data) ELSE None,
            IF Has(payload, "error") /\ payload.o.error # JNull
                THEN Some(payload.o.error.s) ELSE None))

\* A client that takes a pong envelope for a response as well.
matches_response_or_pong(response) == response.message_type \in {"response", "pong"}

\* matches!(response.message_type, IpcMessageType::Response)
matches_response(response) == response.message_type = "response"

\* A client that hands a missing payload to the decoder as null.
ok_or_null(payload, err) == Ok(IF payload.some THEN payload.v ELSE JNull)

\* Option::ok_or_else
ok_or_else(payload, err) == IF payload.some THEN Ok(payload.v) ELSE err

send_command(command, l, peer) ==
    LET stream == connect_to_daemon(l)
    IN  IF ~stream.ok THEN stream
        ELSE LET payload == command_to_value(command)
                 message == IpcMessage("command", Some(payload))
                 bytes == serialize_message(message)
             IN  IF ~bytes.ok THEN bytes
                 ELSE LET sent == send_bytes(peer, bytes.v)
                      IN  IF ~sent.ok THEN sent
                          ELSE LET response_bytes == read_message(peer)
                               IN  IF ~response_bytes.ok THEN response_bytes
                                   ELSE LET response == deserialize_message(response_bytes.v)
                                        IN  IF ~response.ok THEN response
                                            ELSE IF ~matches_response(response.v)
                                                 THEN Err("ProtocolError", "unexpected response type")
                                            ELSE LET present == ok_or_else(response.v.payload,
                                                        Err("ProtocolError", "missing response payload"))
                                                 IN  IF ~present.ok THEN present
                                                     ELSE command_response_from_value(present.v)

\* The frame a client operation puts on its connection, if it gets to write.
PingFrame == serialize_message(IpcMessage("ping", None)).v
CommandFrame(command) ==
    serialize_message(IpcMessage("command", Some(command_to_value(command)))).v

Wrote(l, peer) == connect_to_daemon(l).ok /\ peer.takes

-----------------------------------------------------------------------------
(* What a peer may send.                                                   *)

CommandIds == {"cmd-1", "cmd-2"}

Frame(message) == serialize_message(message).v

ResponsePayloads ==
    {JObj([id |-> JStr(i), success |-> JBool(b)]) : i \in CommandIds, b \in BOOLEAN}
    \cup {JObj([id |-> JStr(i), success |-> JBool(TRUE), data |-> JObj([title |-> JStr("t")])]) :
            i \in CommandIds}
    \cup {JObj([id |-> JStr(i), success |-> JBool(FALSE), error |-> JStr("boom")]) :
            i \in CommandIds}
    \cup {JObj([id |-> JStr("cmd-1"), success |-> JBool(TRUE), data |-> JNull, error |-> JNull]),
          JObj([id |-> JStr("cmd-1"), success |-> JBool(TRUE), data |-> JStr("d"), error |-> JStr("e")]),
          JObj([id |-> JStr("cmd-1"), success |-> JBool(FALSE), data |-> JObj([title |-> JStr("t")])]),
          JObj([id |-> JStr("cmd-1"), success |-> JBool(TRUE), extra |-> JStr("x")]),
          JObj([id |-> JStr("cmd-1")]),
          JObj([success |-> JBool(TRUE)]),
          JObj([id |-> JBool(TRUE), success |-> JBool(TRUE)]),
          JObj([id |-> JStr("cmd-1"), success |-> JStr("yes")]),
          JObj([id |-> JStr("cmd-1"), success |-> JBool(FALSE), error |-> JBool(TRUE)]),
          JStr("ok")}

Envelopes ==
    {IpcMessage(ty, None) : ty \in IpcMessageType}
    \cup {IpcMessage("response", Some(v)) : v \in ResponsePayloads}
    \cup {IpcMessage(ty, Some(JObj([id |-> JStr("cmd-1"), success |-> JBool(TRUE)]))) :
            ty \in IpcMessageType \ {"response"}}

\* Streams that are not one well-formed frame.
BrokenStreams ==
    { <<>>,
      <<Junk>>,
      to_vec(IpcMessage("pong", None)),
      <<Junk, MESSAGE_DELIMITER>>,
      <<MESSAGE_DELIMITER>>,
      <<LBrace, RBrace, MESSAGE_DELIMITER>>,
      <<LBrace, Member("payload", JNull), RBrace, MESSAGE_DELIMITER>>,
      <<LBrace, Member("type", JStr("hello")), Member("payload", JNull), RBrace, MESSAGE_DELIMITER>>,
      <<LBrace, Member("type", JBool(TRUE)), RBrace, MESSAGE_DELIMITER>>,
      <<LBrace, Member("type", JStr("pong")), RBrace, MESSAGE_DELIMITER>>,
      <<LBrace, Member("type", JStr("pong")), Member("type", JStr("pong")), RBrace, MESSAGE_DELIMITER>>,
      <<LBrace, Member("type", JStr("pong")), Member("payload", JNull), Member("v", JStr("2")),
        RBrace, MESSAGE_DELIMITER>>,
      <<LBrace, MESSAGE_DELIMITER, Member("type", JStr("pong")), Member("payload", JNull),
        RBrace, MESSAGE_DELIMITER>>,
      <<LBrace, Member("type", JStr("pong")), Member("payload", JNull), RBrace, Junk,
        MESSAGE_DELIMITER>> }

\* Frames that serialize_message does not write and deserialize_message takes:
\* the payload member left out.
BareFrames ==
    {<<LBrace, Member("type", JStr(ty)), RBrace, MESSAGE_DELIMITER>> : ty \in IpcMessageType}

\* A response envelope cut off before its delimiter.
CutFrames ==
    {to_vec(IpcMessage("response", Some(JObj([id |-> JStr("cmd-1"), success |-> JBool(TRUE)]))))}

Streams ==
    BrokenStreams
    \cup BareFrames
    \cup CutFrames
    \cup {Frame(m) : m \in Envelopes}
    \cup {Frame(IpcMessage("pong", None)) \o Frame(IpcMessage("ping", None))}

\* Any peer at all.
RoguePeers ==
    {Peer(TRUE, bytes, eof) : bytes \in Streams, eof \in BOOLEAN}
    \cup {Peer(FALSE, <<>>, TRUE)}

\* The daemon: it reads the frame, answers a ping with a pong and a command with
\* a response that carries the command's id, and leaves the stream open or not.
DaemonPeers(frame) ==
    LET incoming == deserialize_message(SubSeq(frame, 1, Len(frame) - 1)).v
    IN  IF incoming.message_type = "ping"
        THEN {Peer(TRUE, Frame(IpcMessage("pong", None)), eof) : eof \in BOOLEAN}
        ELSE LET id == incoming.payload.v.o.id
             IN  {Peer(TRUE, Frame(IpcMessage("response", Some(v))), eof) :
                    v \in {JObj([id |-> id, success |-> JBool(TRUE)]),
                           JObj([id |-> id, success |-> JBool(TRUE),
                                 data |-> JObj([title |-> JStr("t")])]),
                           JObj([id |-> id, success |-> JBool(FALSE), error |-> JStr("boom")])},
                    eof \in BOOLEAN}

NoPeer == Peer(FALSE, <<>>, TRUE)

Peers(l, frame) ==
    IF l = "serving" THEN DaemonPeers(frame)
    ELSE IF l = "rogue" THEN RoguePeers
    ELSE {NoPeer}

-----------------------------------------------------------------------------
(* Constants of the program.                                               *)

DAEMON_STARTUP_TIMEOUT_MS == 10000
DAEMON_POLL_INTERVAL_MS == 100
connection_timeout_ms == 5000

DAEMON_EXECUTABLE == "agent-tab-daemon"
DEFAULT_SESSION_NAME == "default"

\* The deadlines of the stream, by platform (cfg(unix), cfg(windows)).
Platforms == {"unix", "windows"}

command_timeout_ms == 30000

\* connect_to_daemon, the connect: UnixStream::connect and OpenOptions::open
\* take no timeout.
connect_deadline(platform, timeout) == None

\* connect_to_daemon, the read and write timeouts it sets on the stream: the
\* Windows one leaves its _timeout unused.
connect_to_daemon_timeouts(platform, timeout) ==
    IF platform = "unix" THEN Some(timeout) ELSE None

\* The read and write timeouts of the stream when the operation writes and
\* reads: send_command sets them again, under cfg(unix) alone.
io_deadline(platform, op) ==
    IF op = "send_command" /\ platform = "unix" THEN Some(command_timeout_ms)
    ELSE connect_to_daemon_timeouts(platform, connection_timeout_ms)

\* A probe or an exchange that never returns: its read blocks and the stream
\* has no read timeout.
hangs(platform, op, blocks) == blocks /\ io_deadline(platform, op) = None


-----------------------------------------------------------------------------
(* The daemon supervisor (daemon.rs).                                      *)

unwrap_or(res, default) == IF res.ok THEN res.v ELSE default

\* A supervisor that takes a probe that failed for a live daemon.
is_daemon_running_unwrap_or_true(l, peer) ==
    IF l = "absent" THEN FALSE
    ELSE unwrap_or(ping(l, peer), TRUE)

is_daemon_running(l, peer) ==
    IF l = "absent" THEN FALSE
    ELSE unwrap_or(ping(l, peer), FALSE)

\* is_in_path(DAEMON_EXECUTABLE) is in_path; adjacent: the file exists in the
\* directory of the running binary.
find_daemon_executable(adjacent, in_path) ==
    IF adjacent THEN Ok("adjacent")
    ELSE IF in_path THEN Ok(DAEMON_EXECUTABLE)
    ELSE Err("DaemonNotRunning", "executable not found")

\* format!("{}.exe", name)
with_exe(name) == IF name = DAEMON_EXECUTABLE THEN "agent-tab-daemon.exe" ELSE "tab.exe"

\* The files a directory may hold, and the directories.
Files == {"tab", DAEMON_EXECUTABLE, with_exe(DAEMON_EXECUTABLE)}
Dirs == SUBSET Files

\* is_in_path: some directory of PATH holds the name or, under cfg(windows),
\* the name with the .exe extension.
is_in_path(target, name, path_dirs) ==
    \E dir \in path_dirs :
        \/ name \in dir
        \/ target = "windows" /\ with_exe(name) \in dir

\* find_daemon_executable on the file system: current_exe is whether
\* std::env::current_exe() returned a path, beside the directory of the running
\* binary, path_dirs the directories of PATH.
discover(target, current_exe, beside, path_dirs) ==
    find_daemon_executable(current_exe /\ DAEMON_EXECUTABLE \in beside,
                           is_in_path(target, DAEMON_EXECUTABLE, path_dirs))

\* A start_daemon that returns the error of Command::spawn as it is.
start_daemon_io_error(adjacent, in_path, spawn_ok) ==
    LET daemon_path == find_daemon_executable(adjacent, in_path)
    IN  IF ~daemon_path.ok THEN daemon_path
        ELSE IF ~spawn_ok THEN Err("IoError", "No such file or directory")
        ELSE Ok(Unit)

\* What start_daemon returns; spawn_ok: the OS creates the process.
start_daemon(adjacent, in_path, spawn_ok) ==
    LET daemon_path == find_daemon_executable(adjacent, in_path)
    IN  IF ~daemon_path.ok THEN daemon_path
        ELSE IF ~spawn_ok THEN Err("DaemonNotRunning", "failed to start daemon")
        ELSE Ok(Unit)

\* A start_daemon that creates the process before it looks at what went wrong.
start_daemon_spawns_anyway(adjacent, in_path, spawn_ok) == 1

\* The processes start_daemon creates.
start_daemon_spawns(adjacent, in_path, spawn_ok) ==
    IF start_daemon(adjacent, in_path, spawn_ok).ok THEN 1 ELSE 0

\* No process: start_daemon has spawned none.
NoChild == [state |-> "none", session |-> "none", stdin |-> "none",
            stdout |-> "none", stderr |-> "none"]

\* A spawn without setsid: the daemon stays in the session of the CLI.
spawn_attached ==
    [state |-> "running", session |-> "cli", stdin |-> "null", stdout |-> "null",
     stderr |-> "null"]

\* start_daemon, the process it spawns: Stdio::null() for the three streams,
\* and a session of its own (setsid in pre_exec under unix, DETACHED_PROCESS
\* under windows). The Child handle is dropped, which neither kills nor waits.
spawn ==
    [state |-> "running", session |-> "own", stdin |-> "null", stdout |-> "null",
     stderr |-> "null"]

\* The states a spawned process may be in once the CLI process has exited:
\* one left in the session of the CLI, or holding a stream of it, may be ended
\* with it (hangup of the terminal, a closed pipe); a detached one is as it was.
after_exit(c) ==
    IF c.state = "running"
       /\ (c.session = "cli" \/ "inherit" \in {c.stdin, c.stdout, c.stderr})
    THEN {[c EXCEPT !.state = "running"], [c EXCEPT !.state = "killed"]}
    ELSE {c}

\* A supervisor that starts a daemon whatever its first probe says.
ensure_never_returns_early(alive) == FALSE

\* A supervisor that returns Ok without looking at its first probe.
ensure_always_returns_early(alive) == TRUE

\* ensure_daemon_running after its first probe: return Ok at once, or go on to
\* start_daemon.
ensure_returns_early(alive) == alive

\* A loop that takes the connection timeout for part of its deadline.
deadline_passed_late(e) == e > DAEMON_STARTUP_TIMEOUT_MS + connection_timeout_ms

\* A loop that gives up when the deadline is reached, not when it has passed.
deadline_passed_at(e) == e >= DAEMON_STARTUP_TIMEOUT_MS

\* The head of the loop of wait_for_daemon_ready.
deadline_passed(e) == e > DAEMON_STARTUP_TIMEOUT_MS

\* A loop that starts the daemon again after a probe that failed.
poll_respawns(alive) == IF alive THEN 0 ELSE 1

\* The processes one turn of the loop of wait_for_daemon_ready creates.
poll_spawns(alive) == 0

-----------------------------------------------------------------------------
(* One CLI invocation (main.rs, run) per process.                          *)

Procs == {1, 2}

CliCommands == {"ping", "snapshot", "navigate"}

CommandId(p) == IF p = 1 THEN "cmd-1" ELSE "cmd-2"

\* A builder that carries every raw value as params.
params_opt_always_some(params) == Some(params)

\* CommandBuilder::build, params_opt: None for an object without fields
\* (is_object, and as_object is none or empty), Some(params) otherwise.
params_opt(params) ==
    IF IsObj(params) /\ DOMAIN params.o = {} THEN None ELSE Some(params)

\* A builder that leaves the profile out of the Command.
CommandBuilder_build_drops_profile(id, session_id, profile, command_type, params) ==
    Command(id, session_id, None, command_type, params_opt(params),
            "2026-01-01T00:00:00Z")

\* CommandBuilder::build
CommandBuilder_build(id, session_id, profile, command_type, params) ==
    Command(id, session_id, profile, command_type, params_opt(params),
            "2026-01-01T00:00:00Z")

\* CommandBuilder::build for a command without parameters: json!({})
build(p, command_type) ==
    CommandBuilder_build(CommandId(p), DEFAULT_SESSION_NAME, None, command_type,
                         JObj(<<>>))

\* The CommandType a command of the CLI is executed with.
CommandTypeOf(c) ==
    IF c = "snapshot" THEN "Snapshot"
    ELSE IF c = "navigate" THEN "Navigate"
    ELSE "Eval"

-----------------------------------------------------------------------------
(* The arguments of a command. A str argument is the sequence of its        *)
(* characters.                                                              *)

Whitespace == {" ", "\t"}

\* str::trim
trim(str) ==
    LET kept == {i \in 1..Len(str) : str[i] \notin Whitespace}
    IN  IF kept = {} THEN <<>>
        ELSE SubSeq(str, CHOOSE i \in kept : \A k \in kept : i <= k,
                         CHOOSE i \in kept : \A k \in kept : i >= k)

Uppercase ==
    ("A" :> "a") @@ ("B" :> "b") @@ ("C" :> "c") @@ ("E" :> "e") @@ ("H" :> "h")
    @@ ("M" :> "m") @@ ("O" :> "o") @@ ("R" :> "r") @@ ("T" :> "t") @@ ("U" :> "u")

\* str::to_lowercase
to_lowercase(str) ==
    [i \in 1..Len(str) |-> IF str[i] \in DOMAIN Uppercase THEN Uppercase[str[i]] ELSE str[i]]

\* str::starts_with
starts_with(str, prefix) ==
    Len(str) >= Len(prefix) /\ SubSeq(str, 1, Len(prefix)) = prefix

ChromeScheme == <<"c", "h", "r", "o", "m", "e", ":", "/", "/">>
AboutScheme == <<"a", "b", "o", "u", "t", ":">>
HttpScheme == <<"h", "t", "t", "p", ":", "/", "/">>
HttpsScheme == <<"h", "t", "t", "p", "s", ":", "/", "/">>

\* validate_url
validate_url(url) ==
    IF trim(url) = <<>> THEN Err("InvalidArguments", "URL cannot be empty")
    ELSE IF starts_with(to_lowercase(url), ChromeScheme)
            \/ starts_with(to_lowercase(url), AboutScheme)
    THEN Err("InvalidArguments", "Chrome internal URLs are not allowed")
    ELSE Ok(Unit)

\* normalize_url
normalize_url(url) ==
    IF starts_with(trim(url), HttpScheme) \/ starts_with(trim(url), HttpsScheme)
    THEN trim(url)
    ELSE HttpsScheme \o trim(url)

\* The URLs given to navigate.
Urls ==
    { <<>>,
      <<" ">>,
      <<" ", "\t">>,
      ChromeScheme \o <<"x">>,
      <<"C", "h", "r", "o", "m", "e", ":", "/", "/", "x">>,
      AboutScheme \o <<"x">>,
      <<"A", "B", "O", "U", "T", ":">>,
      <<"a", ".", "b">>,
      <<" ", "a", ".", "b", " ">>,
      HttpsScheme \o <<"a", ".", "b">>,
      HttpScheme \o <<"a", ".", "b">> }

\* The arguments a command of the CLI may be given: a URL for navigate, none
\* for snapshot.
Inputs(c) == IF c = "navigate" THEN Urls ELSE {<<>>}

\* The validation in the execute of the command, before ctx.execute.
validate(c, arg) == IF c = "navigate" THEN validate_url(arg) ELSE Ok(Unit)

ValidInputs(c) == {arg \in Inputs(c) : validate(c, arg).ok}

\* The Command that CommandContext::execute builds for the command of the CLI:
\* NavigatePayload for navigate, json!({}) for snapshot.
command_of(p, c, arg) ==
    IF c = "navigate"
    THEN CommandBuilder_build(CommandId(p), DEFAULT_SESSION_NAME, None, "Navigate",
                              JObj([url |-> JStr(normalize_url(arg))]))
    ELSE build(p, CommandTypeOf(c))

\* A dispatcher that sends the command once more after an error.
retries_on_error(res) == IF res.ok THEN 0 ELSE 1

\* CommandContext::execute: the calls of send_command after the first.
retries(res) == 0

\* The tail of run: the response decides the exit.
\* A run that takes every CommandResponse for a success.
run_result_ignores_success(res) ==
    IF ~res.ok THEN res ELSE Ok(Unit)

run_result(res) ==
    IF ~res.ok THEN res
    ELSE IF res.v.success THEN Ok(Unit)
    ELSE Err("CommandFailed", IF res.v.error.some THEN res.v.error.v ELSE "Unknown error")

\* main: the exit code of the process, ExitCode::from(e.exit_code() as u8).
main(res) == IF res.ok THEN 0 ELSE exit_code(res) % 256

\* A ping command that succeeds on any reply.
run_ping_any_reply(res) == IF ~res.ok THEN res ELSE Ok(Unit)

\* The ping command of run.
run_ping(res) ==
    IF ~res.ok THEN res
    ELSE IF res.v THEN Ok(Unit)
    ELSE Err("DaemonNotRunning", "Daemon is not responding")

\* No stream: the client holds none between its operations (the struct
\* IpcClient has the config alone).
NoStream == [by |-> "none", sends |-> 0, reads |-> 0]

stream_kept(op, held) ==
    IF held.by = "none" THEN [by |-> op, sends |-> 0, reads |-> 0] ELSE held

\* The stream of an operation: the one its own connect_to_daemon returns,
\* whatever stream the operation before it had.
stream_of(op, held) == [by |-> op, sends |-> 0, reads |-> 0]

\* ping and send_command on their stream: connect_to_daemon, and its error
\* returned; one send_bytes; one read_message when send_bytes returned Ok. The
\* stream is a local, dropped when the operation returns.
Use(op, held, connected, wrote) ==
    IF ~connected THEN NoStream
    ELSE LET stream == stream_of(op, held)
         IN  [by |-> stream.by,
              sends |-> stream.sends + 1,
              reads |-> stream.reads + (IF wrote THEN 1 ELSE 0)]

VARIABLES
    platform,   \* the platform the CLI was built for
    listener,   \* who is bound at the address
    foreign,    \* a listener that none of these invocations spawned was bound
    cli,        \* the command of each invocation
    pc,         \* where each invocation is
    wake,       \* time left of the sleep or of the blocked read it is in
    elapsed,    \* start.elapsed() in wait_for_daemon_ready
    spawned,    \* daemon processes each invocation spawned
    ensure,     \* what ensure_daemon_running returned: "none", "ok", "err"
    ponged,     \* a probe of the invocation read a pong frame: "no", "first"
                \* (its first probe did), "poll" (one in wait_for_daemon_ready did)
    bound,      \* a listener was bound while the invocation polled
    since,      \* start.elapsed() when the daemon began to serve, -1 when not
    written,    \* command envelopes the invocation wrote
    sent,       \* the Command of the invocation, once built
    printed,    \* the CommandResponse handed to run
    result,     \* what run returned
    conn,       \* one operation of the IPC client, with its connection
    dispatch,   \* CommandContext::execute: its calls of send_command, and what
                \* the last of them returned
    exited,     \* the CLI process of the invocation has exited
    probes,     \* the probes of the invocation (is_daemon_running, or the ping
                \* of run), counted up to MaxProbesCounted
    child,      \* the process start_daemon spawned for the invocation
    link        \* the stream of the last operation of the IPC client of each
                \* invocation: the operation that opened it, and the calls of
                \* send_bytes and of read_message on it

\* The probes of an invocation are counted up to this number: the count tells
\* none, one and more than one apart.
MaxProbesCounted == 2

counted(n) == IF n > MaxProbesCounted THEN MaxProbesCounted ELSE n

vars == << platform, listener, foreign, cli, pc, wake, elapsed, spawned, ensure, ponged,
           bound, since, written, sent, printed, result, conn, dispatch, link,
           exited, child, probes >>

env == << platform, listener, foreign >>

Up == {"serving", "rogue"}
Polling(p) == pc[p] \in {"wait_ready", "probe_wait"}

\* The first frame a peer sends is a pong envelope.
SentPong(l, peer) ==
    /\ l \in Up
    /\ peer.takes
    /\ \E d \in 1..Len(peer.bytes) :
        /\ peer.bytes[d] = MESSAGE_DELIMITER
        /\ \A k \in 1..(d - 1) : peer.bytes[k] # MESSAGE_DELIMITER
        /\ d >= 4
        /\ peer.bytes[1] = LBrace
        /\ peer.bytes[d - 1] = RBrace
        /\ \A k \in 2..(d - 2) : peer.bytes[k].t = "member"
        /\ Cardinality({k \in 2..(d - 2) : peer.bytes[k].k = "type"}) = 1
        /\ Cardinality({k \in 2..(d - 2) : peer.bytes[k].k = "payload"}) <= 1
        /\ \E k \in 2..(d - 2) : peer.bytes[k] = Member("type", JStr("pong"))

\* What one probe of is_daemon_running may come to, by listener.
ProbeOutcomes ==
    [l \in Listeners |->
        {[alive |-> is_daemon_running(l, peer),
          pong |-> SentPong(l, peer),
          blocks |-> l \in Up /\ ReadBlocks(peer),
          connected |-> connect_to_daemon(l).ok,
          wrote |-> Wrote(l, peer)] : peer \in Peers(l, PingFrame)}]

\* What the ping of the ping command may come to.
PingOutcomes ==
    [l \in Listeners |->
        {[r |-> ping(l, peer), pong |-> SentPong(l, peer),
          blocks |-> l \in Up /\ ReadBlocks(peer),
          connected |-> connect_to_daemon(l).ok,
          wrote |-> Wrote(l, peer)] : peer \in Peers(l, PingFrame)}]

\* What the exchange of an invocation may come to.
ExchangeOutcomes ==
    [p \in Procs |-> [c \in CliCommands |-> [arg \in ValidInputs(c) |-> [l \in Listeners |->
        {[r |-> send_command(command_of(p, c, arg), l, peer),
          blocks |-> l \in Up /\ ReadBlocks(peer),
          connected |-> connect_to_daemon(l).ok,
          wrote |-> Wrote(l, peer)] :
            peer \in Peers(l, CommandFrame(command_of(p, c, arg)))}]]]]

Start(launched) ==
    /\ platform \in Platforms
    /\ listener \in Listeners
    /\ foreign = (listener \in Up)
    /\ cli \in [Procs -> CliCommands]
    /\ pc = [p \in Procs |-> IF p \in launched THEN "run" ELSE "off"]
    /\ wake = [p \in Procs |-> 0]
    /\ elapsed = [p \in Procs |-> 0]
    /\ spawned = [p \in Procs |-> 0]
    /\ ensure = [p \in Procs |-> "none"]
    /\ ponged = [p \in Procs |-> "no"]
    /\ bound = [p \in Procs |-> FALSE]
    /\ since = [p \in Procs |-> -1]
    /\ written = [p \in Procs |-> 0]
    /\ sent = [p \in Procs |-> None]
    /\ printed = [p \in Procs |-> None]
    /\ result = [p \in Procs |-> None]
    /\ conn = [op |-> "none"]
    /\ dispatch = [p \in Procs |-> [calls |-> 0, r |-> None]]
    /\ link = [p \in Procs |-> NoStream]
    /\ exited = [p \in Procs |-> FALSE]
    /\ probes = [p \in Procs |-> 0]
    /\ child = [p \in Procs |-> NoChild]

\* One invocation.
Init == Start({1}) /\ cli[2] = "ping"

\* Two invocations, launched together, at an address where nothing listens.
InitRace ==
    /\ Start(Procs)
    /\ listener \notin Up
    /\ \A p \in Procs : cli[p] \in {"ping", "snapshot"}

-----------------------------------------------------------------------------
(* The address, which the invocations do not control.                      *)

\* start.elapsed() of a polling invocation when the daemon begins to serve.
Mark(l) ==
    [p \in Procs |-> IF Polling(p) THEN (IF l = "serving" THEN elapsed[p] ELSE -1)
                     ELSE since[p]]

Binds(l) ==
    /\ listener \notin Up
    /\ listener' = l
    /\ bound' = [p \in Procs |-> bound[p] \/ Polling(p)]
    /\ since' = Mark(l)

\* A daemon that one of the invocations spawned binds the address.
DaemonBinds ==
    /\ \E p \in Procs : spawned[p] > 0
    /\ Binds("serving")
    /\ UNCHANGED << platform, foreign, cli, pc, wake, elapsed, spawned, ensure, ponged,
                    written, sent, printed, result, conn, dispatch, link, exited, child,
                    probes >>

\* Something else binds it: a daemon from another source, or any other listener.
OtherBinds ==
    /\ \E l \in Up : Binds(l)
    /\ foreign' = TRUE
    /\ UNCHANGED << platform, cli, pc, wake, elapsed, spawned, ensure, ponged, written,
                    sent, printed, result, conn, dispatch, link, exited, child,
                    probes >>

\* The listener goes away, and leaves its socket file or not.
ListenerGone ==
    /\ listener \in Up
    /\ listener' \in {"absent", "stale"}
    /\ since' = Mark(listener')
    /\ UNCHANGED << platform, foreign, cli, pc, wake, elapsed, spawned, ensure, ponged,
                    bound, written, sent, printed, result, conn, dispatch, link, exited, child,
                    probes >>

SocketRemoved ==
    /\ listener = "stale"
    /\ listener' = "absent"
    /\ UNCHANGED << platform, foreign, cli, pc, wake, elapsed, spawned, ensure, ponged,
                    bound, since, written, sent, printed, result, conn, dispatch, link, exited, child,
                    probes >>

-----------------------------------------------------------------------------
(* Time. It passes only while every invocation that is not done sleeps or  *)
(* is blocked in a read, and then up to the first of them to wake.         *)

Min(S) == CHOOSE x \in S : \A y \in S : x <= y

Tick ==
    /\ \A p \in Procs : pc[p] \in {"off", "done"} \/ wake[p] > 0
    /\ \E p \in Procs : wake[p] > 0
    /\ LET d == Min({wake[p] : p \in {q \in Procs : wake[q] > 0}})
       IN  /\ wake' = [p \in Procs |-> IF wake[p] > 0 THEN wake[p] - d ELSE 0]
           /\ elapsed' = [p \in Procs |-> IF wake[p] > 0 THEN elapsed[p] + d ELSE elapsed[p]]
    /\ UNCHANGED << env, cli, pc, spawned, ensure, ponged, bound, since, written,
                    sent, printed, result, conn, dispatch, link, exited, child,
                    probes >>

-----------------------------------------------------------------------------
(* run                                                                     *)

\* run, the ping command: one ping, no supervisor. A ping whose read blocks on
\* a stream without a read timeout does not return.
RunPing(p) ==
    /\ pc[p] = "run"
    /\ cli[p] = "ping"
    /\ \E o \in PingOutcomes[listener] :
        /\ ponged' = [ponged EXCEPT ![p] = IF o.pong THEN "first" ELSE "no"]
        /\ link' = [link EXCEPT ![p] = Use("ping", @, o.connected, o.wrote)]
        /\ IF hangs(platform, "ping", o.blocks)
           THEN /\ pc' = [pc EXCEPT ![p] = "ping_hung"]
                /\ UNCHANGED result
           ELSE /\ pc' = [pc EXCEPT ![p] = "done"]
                /\ result' = [result EXCEPT ![p] = Some(run_ping(o.r))]
    /\ UNCHANGED << env, cli, wake, elapsed, spawned, ensure, bound, since,
                    written, sent, printed, conn, dispatch, exited, child >>
    /\ probes' = [probes EXCEPT ![p] = counted(@ + 1)]

\* ensure_daemon_running: the first is_daemon_running. A probe whose read
\* blocks on a stream without a read timeout does not return.
EnsureProbe(p) ==
    /\ pc[p] = "run"
    /\ cli[p] # "ping"
    /\ \E o \in ProbeOutcomes[listener] :
        /\ ponged' = [ponged EXCEPT ![p] = IF o.pong THEN "first" ELSE "no"]
        /\ link' = [link EXCEPT ![p] = Use("ping", @, o.connected, o.wrote)]
        /\ IF hangs(platform, "ping", o.blocks)
           THEN /\ pc' = [pc EXCEPT ![p] = "first_probe_hung"]
                /\ UNCHANGED ensure
           ELSE IF ensure_returns_early(o.alive)
           THEN /\ ensure' = [ensure EXCEPT ![p] = "ok"]
                /\ pc' = [pc EXCEPT ![p] = "execute"]
           ELSE /\ pc' = [pc EXCEPT ![p] = "start_daemon"]
                /\ UNCHANGED ensure
    /\ UNCHANGED << env, cli, wake, elapsed, spawned, bound, since, written,
                    sent, printed, result, conn, dispatch, exited, child >>
    /\ probes' = [probes EXCEPT ![p] = counted(@ + 1)]

\* ensure_daemon_running: start_daemon, and its error returned by `?`; then
\* wait_for_daemon_ready takes start = Instant::now().
StartDaemon(p) ==
    /\ pc[p] = "start_daemon"
    /\ \E adjacent \in BOOLEAN, in_path \in BOOLEAN, spawn_ok \in BOOLEAN :
        LET started == start_daemon(adjacent, in_path, spawn_ok)
        IN  /\ spawned' = [spawned EXCEPT
                    ![p] = @ + start_daemon_spawns(adjacent, in_path, spawn_ok)]
            /\ child' = [child EXCEPT ![p] = IF started.ok THEN spawn ELSE @]
            /\ IF started.ok
               THEN /\ pc' = [pc EXCEPT ![p] = "wait_ready"]
                    /\ UNCHANGED << ensure, result >>
               ELSE /\ pc' = [pc EXCEPT ![p] = "done"]
                    /\ ensure' = [ensure EXCEPT ![p] = "err"]
                    /\ result' = [result EXCEPT ![p] = Some(started)]
    /\ elapsed' = [elapsed EXCEPT ![p] = 0]
    /\ bound' = [bound EXCEPT ![p] = listener \in Up]
    /\ since' = [since EXCEPT ![p] = IF listener = "serving" THEN 0 ELSE -1]
    /\ UNCHANGED << env, cli, wake, ponged, written, sent, printed, conn, dispatch,
                    link, exited, probes >>

\* wait_for_daemon_ready: the deadline has passed at the head of the loop.
WaitTimeout(p) ==
    /\ pc[p] = "wait_ready"
    /\ wake[p] = 0
    /\ deadline_passed(elapsed[p])
    /\ pc' = [pc EXCEPT ![p] = "done"]
    /\ ensure' = [ensure EXCEPT ![p] = "err"]
    /\ result' = [result EXCEPT ![p] =
            Some(Err("DaemonNotRunning", "daemon failed to start within timeout"))]
    /\ UNCHANGED << env, cli, wake, elapsed, spawned, ponged, bound, since,
                    written, sent, printed, conn, dispatch, link, exited, child,
                    probes >>

\* wait_for_daemon_ready: one turn of the loop. A probe that is alive returns
\* Ok; one that fails at once is followed by the sleep; one whose read blocks
\* lasts until the read timeout (WaitProbeTimeout), and does not return when
\* the stream has none.
WaitProbe(p) ==
    /\ pc[p] = "wait_ready"
    /\ wake[p] = 0
    /\ ~deadline_passed(elapsed[p])
    /\ \E o \in ProbeOutcomes[listener] :
        /\ ponged' = [ponged EXCEPT ![p] = IF o.pong THEN "poll" ELSE @]
        /\ link' = [link EXCEPT ![p] = Use("ping", @, o.connected, o.wrote)]
        /\ spawned' = [spawned EXCEPT ![p] = @ + poll_spawns(o.alive)]
        /\ IF o.alive
           THEN /\ ensure' = [ensure EXCEPT ![p] = "ok"]
                /\ pc' = [pc EXCEPT ![p] = "execute"]
                /\ UNCHANGED wake
           ELSE IF hangs(platform, "ping", o.blocks)
           THEN /\ pc' = [pc EXCEPT ![p] = "poll_hung"]
                /\ UNCHANGED << ensure, wake >>
           ELSE IF o.blocks
           THEN /\ pc' = [pc EXCEPT ![p] = "probe_wait"]
                /\ wake' = [wake EXCEPT ![p] = connection_timeout_ms]
                /\ UNCHANGED ensure
           ELSE /\ wake' = [wake EXCEPT ![p] = DAEMON_POLL_INTERVAL_MS]
                /\ UNCHANGED << ensure, pc >>
    /\ UNCHANGED << env, cli, elapsed, bound, since, written, sent, printed, result,
                    conn, dispatch, exited, child >>
    /\ probes' = [probes EXCEPT ![p] = counted(@ + 1)]

\* The read timeout of a probe ends it; is_daemon_running is false; the loop
\* sleeps.
WaitProbeTimeout(p) ==
    /\ pc[p] = "probe_wait"
    /\ wake[p] = 0
    /\ wake' = [wake EXCEPT ![p] = DAEMON_POLL_INTERVAL_MS]
    /\ pc' = [pc EXCEPT ![p] = "wait_ready"]
    /\ UNCHANGED << env, cli, elapsed, spawned, ensure, ponged, bound, since,
                    written, sent, printed, result, conn, dispatch, link, exited, child,
                    probes >>

\* run after ensure_daemon_running: CommandContext::execute and the exit. An
\* exchange whose read blocks on a stream without a read timeout does not
\* return.
Execute(p) ==
    /\ pc[p] = "execute"
    /\ \E arg \in Inputs(cli[p]) :
        LET valid == validate(cli[p], arg)
        IN  IF ~valid.ok
            THEN /\ result' = [result EXCEPT ![p] = Some(valid)]
                 /\ pc' = [pc EXCEPT ![p] = "done"]
                 /\ UNCHANGED << sent, written, dispatch, printed, link >>
            ELSE /\ sent' = [sent EXCEPT ![p] = Some(command_of(p, cli[p], arg))]
                 /\ \E o \in ExchangeOutcomes[p][cli[p]][arg][listener] :
                    IF hangs(platform, "send_command", o.blocks)
                    THEN /\ pc' = [pc EXCEPT ![p] = "exchange_hung"]
                         /\ written' = [written EXCEPT ![p] = @ + 1]
                         /\ link' = [link EXCEPT ![p] =
                                Use("send_command", @, o.connected, o.wrote)]
                         /\ dispatch' = [dispatch EXCEPT ![p] = [calls |-> 1, r |-> None]]
                         /\ UNCHANGED << printed, result >>
                    ELSE
                    \E again \in (IF retries(o.r) > 0
                                  THEN ExchangeOutcomes[p][cli[p]][arg][listener]
                                  ELSE {o}) :
                    LET n == retries(o.r)
                        last == IF n > 0 THEN again ELSE o
                    IN  /\ written' = [written EXCEPT ![p] =
                                @ + (IF o.wrote THEN 1 ELSE 0)
                                  + (IF n > 0 /\ again.wrote THEN 1 ELSE 0)]
                        /\ dispatch' = [dispatch EXCEPT ![p] =
                                [calls |-> 1 + n, r |-> Some(last.r)]]
                        /\ printed' = [printed EXCEPT ![p] =
                                IF last.r.ok THEN Some(last.r.v) ELSE None]
                        /\ result' = [result EXCEPT ![p] = Some(run_result(last.r))]
                        /\ pc' = [pc EXCEPT ![p] = "done"]
                        /\ link' = [link EXCEPT ![p] =
                                LET first == Use("send_command", @, o.connected, o.wrote)
                                IN  IF n > 0
                                    THEN Use("send_command", first, again.connected,
                                             again.wrote)
                                    ELSE first]
    /\ elapsed' = [elapsed EXCEPT ![p] = 0]
    /\ since' = [since EXCEPT ![p] = -1]
    /\ UNCHANGED << env, cli, wake, spawned, ensure, ponged, bound, conn, exited, child,
                    probes >>

\* main returns the exit code: the CLI process is gone.
Exit(p) ==
    /\ pc[p] = "done"
    /\ ~exited[p]
    /\ exited' = [exited EXCEPT ![p] = TRUE]
    /\ \E c \in after_exit(child[p]) : child' = [child EXCEPT ![p] = c]
    /\ UNCHANGED << env, cli, pc, wake, elapsed, spawned, ensure, ponged, bound, since,
                    written, sent, printed, result, conn, dispatch, link, probes >>

Next ==
    \/ DaemonBinds
    \/ OtherBinds
    \/ ListenerGone
    \/ SocketRemoved
    \/ Tick
    \/ \E p \in Procs :
        \/ RunPing(p)
        \/ EnsureProbe(p)
        \/ StartDaemon(p)
        \/ WaitTimeout(p)
        \/ WaitProbe(p)
        \/ WaitProbeTimeout(p)
        \/ Execute(p)
        \/ Exit(p)

Spec == Init /\ [][Next]_vars

\* The race of two invocations: the only listener is a daemon they spawned.
NextRace ==
    \/ DaemonBinds
    \/ ListenerGone
    \/ SocketRemoved
    \/ Tick
    \/ \E p \in Procs :
        \/ RunPing(p)
        \/ EnsureProbe(p)
        \/ StartDaemon(p)
        \/ WaitTimeout(p)
        \/ WaitProbe(p)
        \/ Execute(p)

SpecRace == InitRace /\ [][NextRace]_vars

-----------------------------------------------------------------------------
(* The IPC client alone (ipc.rs), and the dispatcher that builds its        *)
(* Command: a client does one operation, on one connection, against every   *)
(* listener and every peer.                                                 *)

life == << platform, listener, foreign, cli, pc, wake, elapsed, spawned, ensure, ponged,
           bound, since, written, sent, printed, result, dispatch, link,
           exited, child, probes >>

CommandTypes == CliCommands \ {"ping"}

InitIpc ==
    /\ Start({})
    /\ platform = "unix"
    /\ listener = "absent"
    /\ cli = [p \in Procs |-> "ping"]

\* IpcClient::ping, and is_daemon_running on the same connection
ClientPing ==
    /\ conn.op = "none"
    /\ \E l \in Listeners : \E peer \in Peers(l, PingFrame) :
        conn' = [op |-> "ping", listener |-> l, peer |-> peer,
                 wrote |-> Wrote(l, peer), r |-> ping(l, peer),
                 frame |-> PingFrame,
                 alive |-> is_daemon_running(l, peer)]
    /\ UNCHANGED life

\* IpcClient::send_command
ClientSendCommand ==
    /\ conn.op = "none"
    /\ \E p \in Procs, c \in CommandTypes, l \in Listeners :
        \E arg \in ValidInputs(c) :
        LET command == command_of(p, c, arg)
        IN  \E peer \in Peers(l, CommandFrame(command)) :
                conn' = [op |-> "send_command", listener |-> l, peer |-> peer,
                         command |-> command, wrote |-> Wrote(l, peer),
                         frame |-> CommandFrame(command),
                         r |-> send_command(command, l, peer)]
    /\ UNCHANGED life

\* read_message on a stream that arrives in any pieces
ClientRead ==
    /\ conn.op = "none"
    /\ \E bytes \in Streams, eof \in BOOLEAN :
        \E cuts \in SUBSET (1..(Len(bytes) - 1)) :
            LET peer == [Peer(TRUE, bytes, eof) EXCEPT !.cuts = cuts]
            IN  conn' = [op |-> "read_message", peer |-> peer, r |-> read_message(peer)]
    /\ UNCHANGED life

\* The frames read_message hands to the decoder.
Frames ==
    {read_message(Peer(TRUE, bytes, TRUE)).v :
        bytes \in {b \in Streams : read_message(Peer(TRUE, b, TRUE)).ok}}

\* deserialize_message on a frame
ClientDecode ==
    /\ conn.op = "none"
    /\ \E data \in Frames :
        conn' = [op |-> "deserialize_message", data |-> data, r |-> deserialize_message(data)]
    /\ UNCHANGED life

\* The Commands a caller of the builder can make.
Commands ==
    {Command(id, DEFAULT_SESSION_NAME, profile, ty, params, "2026-01-01T00:00:00Z") :
        id \in {"cmd-1"},
        profile \in {None, Some("work")},
        ty \in CommandType,
        params \in {None,
                    Some(JObj([url |-> JStr("https://example.com")])),
                    Some(JObj([ref |-> JStr("e1"), text |-> JNull])),
                    Some(JStr("x")),
                    Some(JNull)}}

\* A command envelope encoded by serialize_message, its delimiter stripped by
\* read_message, decoded by deserialize_message, and its payload by
\* serde_json::from_value::<Command>.
ClientRoundTrip ==
    /\ conn.op = "none"
    /\ \E command \in Commands :
        LET message == IpcMessage("command", Some(command_to_value(command)))
            bytes == serialize_message(message)
            data == read_message(Peer(TRUE, bytes.v, TRUE))
            decoded == IF data.ok THEN deserialize_message(data.v) ELSE data
            back == IF decoded.ok /\ decoded.v.payload.some
                    THEN command_from_value(decoded.v.payload.v)
                    ELSE Err("ProtocolError", "missing payload")
        IN  conn' = [op |-> "round_trip", command |-> command, message |-> message,
                     decoded |-> decoded, back |-> back]
    /\ UNCHANGED life

-----------------------------------------------------------------------------
(* The bytes behind the tokens: the text serde_json::to_vec writes.  A      *)
(* string is the sequence of its characters, as far as the writer treats    *)
(* them differently: a run of plain characters, a newline, a quote.         *)

Chars(s) ==
    CASE s = "line one\nline two" -> <<"line one", "\n", "line two">>
      [] s = "say \"hi\"\n" -> <<"say ", "\"", "hi", "\"", "\n">>
      [] OTHER -> <<s>>

\* A writer that copies every character as it is.
RECURSIVE format_escaped_str_contents_raw(_)
format_escaped_str_contents_raw(chars) ==
    IF chars = <<>> THEN <<>>
    ELSE <<Head(chars)>> \o format_escaped_str_contents_raw(Tail(chars))

\* serde_json's format_escaped_str_contents: a newline is written as
\* backslash n, a quote as backslash quote.
RECURSIVE format_escaped_str_contents(_)
format_escaped_str_contents(chars) ==
    IF chars = <<>> THEN <<>>
    ELSE (CASE Head(chars) = "\n" -> <<"\\", "n">>
            [] Head(chars) = "\"" -> <<"\\", "\"">>
            [] OTHER -> <<Head(chars)>>)
         \o format_escaped_str_contents(Tail(chars))

format_escaped_str(s) == <<"\"">> \o format_escaped_str_contents(Chars(s)) \o <<"\"">>

\* The compact writer of serde_json, for a value and for the members of an
\* object.
RECURSIVE write_value(_)
RECURSIVE write_members(_, _)
write_value(v) ==
    CASE v.j = "null" -> <<"null">>
      [] v.j = "bool" -> <<IF v.b THEN "true" ELSE "false">>
      [] v.j = "str" -> format_escaped_str(v.s)
      [] v.j = "obj" -> <<"{">> \o write_members(v.o, DOMAIN v.o) \o <<"}">>

write_members(o, keys) ==
    IF keys = {} THEN <<>>
    ELSE LET k == CHOOSE x \in keys : TRUE
         IN  format_escaped_str(k) \o <<":">> \o write_value(o[k])
                \o (IF keys = {k} THEN <<>> ELSE <<",">>)
                \o write_members(o, keys \ {k})

\* The bytes of a sequence of tokens.
RECURSIVE Text(_)
Text(tokens) ==
    IF tokens = <<>> THEN <<>>
    ELSE LET t == Head(tokens)
         IN  (CASE t = MESSAGE_DELIMITER -> <<"\n">>
                [] t = LBrace -> <<"{">>
                [] t = RBrace -> <<"}">>
                [] t = Junk -> <<"junk">>
                [] OTHER -> format_escaped_str(t.k) \o <<":">> \o write_value(t.v)
                            \o (IF Tail(tokens) # <<>> /\ Head(Tail(tokens)) # RBrace
                                THEN <<",">> ELSE <<>>))
             \o Text(Tail(tokens))

\* The envelopes the client may be asked to encode.
EncodeInputs ==
    Envelopes
    \cup {IpcMessage("command", Some(command_to_value(c))) :
            c \in {x \in Commands : x.command_type \in {"Type", "TabNew"}}}
    \cup {IpcMessage("command", Some(command_to_value(
                Command("cmd-1", DEFAULT_SESSION_NAME, profile, "Type",
                        Some(JObj([ref |-> JStr("e1"), text |-> JStr(text)])),
                        "2026-01-01T00:00:00Z")))) :
            profile \in {None, Some("line one\nline two")},
            text \in {"line one\nline two", "say \"hi\"\n"}}

\* serialize_message, and the bytes it returns
ClientEncode ==
    /\ conn.op = "none"
    /\ \E message \in EncodeInputs :
        LET bytes == serialize_message(message)
        IN  conn' = [op |-> "serialize_message", message |-> message, r |-> bytes,
                     text |-> Text(bytes.v)]
    /\ UNCHANGED life

\* The operation returns: its blocking read ends with the frame, with the end
\* of the stream, or when the read timeout of the stream passes.
Returns(target, op, l, peer) ==
    ~(Wrote(l, peer) /\ ReadBlocks(peer)) \/ io_deadline(target, op) # None

\* ping or send_command on a platform, and whether it returns
ClientWait ==
    /\ conn.op = "none"
    /\ \E target \in Platforms, op \in {"ping", "send_command"}, l \in Listeners :
        LET command == build(1, "Snapshot")
            frame == IF op = "ping" THEN PingFrame ELSE CommandFrame(command)
        IN  \E peer \in Peers(l, frame) :
                conn' = [op |-> "wait", platform |-> target, call |-> op,
                         listener |-> l, peer |-> peer,
                         wrote |-> Wrote(l, peer),
                         connect |-> connect_deadline(target, connection_timeout_ms),
                         io |-> io_deadline(target, op),
                         returns |-> Returns(target, op, l, peer)]
    /\ UNCHANGED life

\* The session names given by the flag or by the environment.
SessionNames ==
    {"", "default", "work-1", "my_session", "my session", "my.session",
     "aaaaaaaaaaaaaaaaaaaaaaaaaaaaaaaaaaaaaaaaaaaaaaaaaaaaaaaaaaaaaaaa",
     "aaaaaaaaaaaaaaaaaaaaaaaaaaaaaaaaaaaaaaaaaaaaaaaaaaaaaaaaaaaaaaaaa"}

\* name.chars()
chars(name) ==
    CASE name = "" -> <<>>
      [] name = "default" -> <<"d", "e", "f", "a", "u", "l", "t">>
      [] name = "work-1" -> <<"w", "o", "r", "k", "-", "1">>
      [] name = "my_session" -> <<"m", "y", "_", "s", "e", "s", "s", "i", "o", "n">>
      [] name = "my session" -> <<"m", "y", " ", "s", "e", "s", "s", "i", "o", "n">>
      [] name = "my.session" -> <<"m", "y", ".", "s", "e", "s", "s", "i", "o", "n">>
      [] name = "aaaaaaaaaaaaaaaaaaaaaaaaaaaaaaaaaaaaaaaaaaaaaaaaaaaaaaaaaaaaaaaa"
            -> [i \in 1..64 |-> "a"]
      [] name = "aaaaaaaaaaaaaaaaaaaaaaaaaaaaaaaaaaaaaaaaaaaaaaaaaaaaaaaaaaaaaaaaa"
            -> [i \in 1..65 |-> "a"]

MAX_LENGTH == 64

\* char::is_alphanumeric, on the characters of the names
is_alphanumeric(c) ==
    c \in {"a", "d", "e", "f", "i", "k", "l", "m", "n", "o", "r", "s", "t", "u", "w", "y", "1"}

\* validate_session_name
validate_session_name(name) ==
    IF chars(name) = <<>> THEN FALSE
    ELSE IF Len(chars(name)) > MAX_LENGTH THEN FALSE
    ELSE \A i \in 1..Len(chars(name)) :
            is_alphanumeric(chars(name)[i]) \/ chars(name)[i] = "-" \/ chars(name)[i] = "_"

\* Config::from_env: default_session
default_session(var) == IF var.some THEN var.v ELSE DEFAULT_SESSION_NAME

\* A resolution that takes the environment variable before the flag.
resolve_session_id_env_first(flag, var) ==
    IF var.some THEN var.v
    ELSE IF flag.some THEN flag.v
    ELSE default_session(var)

\* resolve_session_id of run: the flag, else the environment variable, else
\* the default of the config.
resolve_session_id(flag, var) ==
    IF flag.some THEN flag.v
    ELSE IF var.some THEN var.v
    ELSE default_session(var)

\* The profile directories given by the flag or by the environment.
ProfileDirs == {"/path/to/profile", "/env/profile"}

\* resolve_profile of run: the flag, else the environment variable, else none.
resolve_profile(flag, var) ==
    IF flag.some THEN Some(flag.v) ELSE var

\* run from resolve_session_id on, once ensure_daemon_running has returned
\* Ok: the session and the profile of the command, and the snapshot command
\* sent with them.
ClientDispatch ==
    /\ conn.op = "none"
    /\ \E flag \in {None} \cup {Some(n) : n \in SessionNames},
          var \in {None} \cup {Some(n) : n \in SessionNames},
          profile_flag \in {None} \cup {Some(d) : d \in ProfileDirs},
          profile_var \in {None} \cup {Some(d) : d \in ProfileDirs},
          l \in {"serving", "stale"} :
        LET session_id == resolve_session_id(flag, var)
            profile == resolve_profile(profile_flag, profile_var)
            command == CommandBuilder_build("cmd-1", session_id, profile, "Snapshot",
                                            JObj(<<>>))
        IN  \E peer \in Peers(l, CommandFrame(command)) :
                conn' = [op |-> "dispatch", flag |-> flag, var |-> var,
                         profile_flag |-> profile_flag, profile_var |-> profile_var,
                         session_id |-> session_id, profile |-> profile,
                         command |-> command, frame |-> CommandFrame(command),
                         listener |-> l, peer |-> peer, wrote |-> Wrote(l, peer),
                         r |-> run_result(send_command(command, l, peer))]
    /\ UNCHANGED life

\* The raw params a command may hand to CommandContext::execute.
RawParams ==
    {JObj(<<>>),
     JObj([url |-> JStr("https://a.b")]),
     JObj([options |-> JObj(<<>>)]),
     JNull,
     JStr(""),
     JBool(FALSE),
     JNum(0),
     JArr(<<>>),
     JArr(<<JObj(<<>>)>>)}

\* CommandBuilder::build, and the envelope send_command writes for its
\* Command
ClientBuild ==
    /\ conn.op = "none"
    /\ \E raw \in RawParams, command_type \in {"Snapshot", "Navigate", "Eval"},
          profile \in {None, Some("/path/to/profile")} :
        LET command == CommandBuilder_build("cmd-1", DEFAULT_SESSION_NAME, profile,
                                            command_type, raw)
        IN  conn' = [op |-> "build", raw |-> raw, command |-> command,
                     value |-> command_to_value(command),
                     frame |-> CommandFrame(command)]
    /\ UNCHANGED life

\* connect_to_daemon (unix) alone
ClientConnect ==
    /\ conn.op = "none"
    /\ \E l \in Listeners :
        conn' = [op |-> "connect", listener |-> l, exists |-> l # "absent",
                 connects |-> connects(l), r |-> connect_to_daemon(l)]
    /\ UNCHANGED life

\* find_daemon_executable alone
Discover ==
    /\ conn.op = "none"
    /\ \E target \in Platforms, current_exe \in BOOLEAN, beside \in Dirs,
          path_dirs \in SUBSET Dirs :
        conn' = [op |-> "find_daemon_executable", platform |-> target,
                 current_exe |-> current_exe, beside |-> beside,
                 path_dirs |-> path_dirs,
                 r |-> discover(target, current_exe, beside, path_dirs)]
    /\ UNCHANGED life

NextIpc ==
    \/ Discover
    \/ ClientPing
    \/ ClientSendCommand
    \/ ClientRead
    \/ ClientDecode
    \/ ClientRoundTrip
    \/ ClientEncode
    \/ ClientWait
    \/ ClientConnect
    \/ ClientDispatch
    \/ ClientBuild

SpecIpc == InitIpc /\ [][NextIpc]_vars

-----------------------------------------------------------------------------
(* The supervisor: ensure_daemon_running.                                  *)

Ensures(p) == cli[p] # "ping" /\ pc[p] # "off"

\* C1: when the first probe of ensure_daemon_running reads a pong from a
\* listener that is already bound, ensure_daemon_running returns Ok and the
\* invocation spawns no daemon process, neither then nor later.
C1_ReachableDaemonIsNotRespawned ==
    \A p \in Procs :
        (Ensures(p) /\ ponged[p] = "first") =>
            /\ ensure[p] = "ok"
            /\ spawned[p] = 0
            /\ pc[p] \in {"execute", "exchange_hung", "done"}

\* An invocation that found the listener answering pong and has finished.
C1_Witness ==
    /\ Ensures(1)
    /\ ponged[1] = "first"
    /\ pc[1] = "done"
    /\ ensure[1] = "ok"
    /\ spawned[1] = 0
    /\ written[1] = 1

\* C2: an invocation has written a command envelope only if its
\* ensure_daemon_running returned Ok, and ensure_daemon_running returned Ok
\* only if a probe of that invocation read a pong; a ping invocation and one
\* whose ensure_daemon_running failed write no command envelope.
C2_CommandOnlyAfterPong ==
    \A p \in Procs :
        /\ written[p] > 0 => (Ensures(p) /\ ensure[p] = "ok")
        /\ sent[p].some => ensure[p] = "ok"
        /\ ensure[p] = "ok" => ponged[p] # "no"
        /\ pc[p] = "execute" => ensure[p] = "ok"

\* A command envelope written after a probe in the polling loop read a pong.
C2_Witness ==
    /\ written[1] = 1
    /\ ensure[1] = "ok"
    /\ ponged[1] = "poll"
    /\ spawned[1] = 1

\* C3: an invocation spawns at most one daemon process: after start_daemon
\* the polling loop only probes, also when its probes fail and when a listener
\* from another source binds the address meanwhile.
C3_AtMostOneSpawn ==
    \A p \in Procs :
        /\ spawned[p] <= 1
        /\ spawned[p] = 1 =>
                pc[p] \in {"wait_ready", "probe_wait", "poll_hung", "execute",
                           "exchange_hung", "done"}
        /\ pc[p] \in {"run", "start_daemon"} => spawned[p] = 0

\* An invocation that spawned, polled through failed probes for a second, and
\* then read a pong from a listener another source had bound meanwhile.
C3_Witness ==
    /\ spawned[1] = 1
    /\ pc[1] = "execute"
    /\ elapsed[1] >= 10 * DAEMON_POLL_INTERVAL_MS
    /\ bound[1]
    /\ listener = "rogue"
    /\ ponged[1] = "poll"

-----------------------------------------------------------------------------
(* Two invocations of ensure_daemon_running at once (SpecRace).             *)

TimedOut == Err("DaemonNotRunning", "daemon failed to start within timeout")

\* start_daemon of the invocation failed: no executable, or the OS refused.
StartFailed(p) ==
    /\ ensure[p] = "err"
    /\ result[p] # Some(TimedOut)

\* Both invocations ran ensure_daemon_running to its end, with an executable
\* they could find and start.
RaceOver ==
    \A p \in Procs : Ensures(p) /\ ensure[p] # "none" /\ ~StartFailed(p)

\* C4, as the claim states it: of two invocations that start when no daemon
\* runs, exactly one spawns a daemon process and both return Ok.
C4_ExactlyOneSpawns ==
    RaceOver =>
        /\ spawned[1] + spawned[2] = 1
        /\ \A p \in Procs : ensure[p] = "ok"

\* C4, as the code has it: one or both of the two invocations spawn, each at
\* most once; one that did not spawn read a pong in its first probe, from the
\* daemon the other spawned; each returns Ok only after a probe of its own read
\* a pong, and otherwise returns the timeout error within one poll interval
\* past its deadline.
C4_OneOrBothSpawn ==
    RaceOver =>
        /\ spawned[1] + spawned[2] \in {1, 2}
        /\ \A p \in Procs :
            /\ spawned[p] <= 1
            /\ spawned[p] = 0 => (ponged[p] = "first" /\ spawned[3 - p] = 1)
            /\ ensure[p] = "ok" => ponged[p] # "no"
            /\ ensure[p] = "err" =>
                /\ result[p] = Some(TimedOut)
                /\ elapsed[p] > DAEMON_STARTUP_TIMEOUT_MS
                /\ elapsed[p] <= DAEMON_STARTUP_TIMEOUT_MS + DAEMON_POLL_INTERVAL_MS

\* Both invocations spawned a daemon, and both returned Ok.
C4_Witness ==
    /\ RaceOver
    /\ \A p \in Procs : spawned[p] = 1 /\ ensure[p] = "ok" /\ ponged[p] = "poll"

-----------------------------------------------------------------------------
(* The polling loop and its deadline: wait_for_daemon_ready.                *)

Serving(p) == spawned[p] = 1 /\ since[p] >= 0

LatestSure == DAEMON_STARTUP_TIMEOUT_MS - connection_timeout_ms - DAEMON_POLL_INTERVAL_MS

-----------------------------------------------------------------------------
(* The liveness probe.                                                     *)

NotResponding == Err("DaemonNotRunning", "Daemon is not responding")

\* C7, as the claim states it: the probe yields no error to its caller, so the
\* ping command ends either with success or, for every failure of the probe,
\* with the error it makes of a probe that is false.
C7_ProbeNeverYieldsError ==
    \A p \in Procs :
        (cli[p] = "ping" /\ pc[p] = "done") =>
            result[p] \in {Some(Ok(Unit)), Some(NotResponding)}

\* The peer sent exactly one well-formed envelope whose kind is not pong.
OtherKind(peer) ==
    /\ peer.takes
    /\ \E m \in Envelopes : m.message_type # "pong" /\ peer.bytes = Frame(m)

\* C8: ping returns true, and is_daemon_running is true, exactly when the
\* client connected, wrote its ping envelope, and the first frame the peer sent
\* is complete and is a pong envelope; after a well-formed envelope of another
\* kind ping returns false.
C8_AliveIffPong ==
    conn.op = "ping" =>
        /\ conn.r = Ok(TRUE) <=>
                (conn.listener \in Up /\ conn.wrote /\ SentPong(conn.listener, conn.peer))
        /\ conn.alive <=> conn.r = Ok(TRUE)
        /\ (conn.listener \in Up /\ OtherKind(conn.peer)) =>
                (conn.r = Ok(FALSE) /\ ~conn.alive)

\* A probe that read a response envelope and reported false.
C8_Witness ==
    /\ conn.op = "ping"
    /\ conn.listener = "rogue"
    /\ conn.peer.bytes = Frame(IpcMessage("response",
            Some(JObj([id |-> JStr("cmd-1"), success |-> JBool(TRUE)]))))
    /\ conn.r = Ok(FALSE)

-----------------------------------------------------------------------------
(* The command exchange.                                                   *)

\* A member of a JSON object, when it is there and is not null.
Field(v, k) == IF Has(v, k) /\ v.o[k] # JNull THEN Some(v.o[k]) ELSE None

\* A response payload as the protocol defines it: id a string, success a
\* boolean, data any value or none, error a string or none.
WellFormedPayload(v) ==
    /\ IsObj(v)
    /\ Has(v, "id") /\ IsStr(v.o.id)
    /\ Has(v, "success") /\ IsBool(v.o.success)
    /\ Field(v, "error").some => IsStr(v.o.error)

\* The peer answered the command with one response envelope carrying v.
Answered(v) ==
    /\ conn.op = "send_command"
    /\ conn.listener \in Up
    /\ conn.peer.takes
    /\ conn.peer.bytes = Frame(IpcMessage("response", Some(v)))

\* C9: when the peer answers with a response envelope whose payload is well
\* formed, send_command returns a CommandResponse whose id, success, data and
\* error are those of the payload (a member that is null is one that is not
\* there).
C9_ResponseFieldsAreThePayloads ==
    \A v \in ResponsePayloads :
        (Answered(v) /\ WellFormedPayload(v)) =>
            /\ conn.r.ok
            /\ conn.r.v.id = v.o.id.s
            /\ conn.r.v.success = v.o.success.b
            /\ conn.r.v.data = Field(v, "data")
            /\ conn.r.v.error.some = Field(v, "error").some
            /\ conn.r.v.error.some => conn.r.v.error.v = v.o.error.s

\* A failed response with data, returned with its data.
C9_Witness ==
    /\ Answered(JObj([id |-> JStr("cmd-1"), success |-> JBool(FALSE),
                      data |-> JObj([title |-> JStr("t")])]))
    /\ conn.r.ok
    /\ ~conn.r.v.success
    /\ conn.r.v.data = Some(JObj([title |-> JStr("t")]))

\* C10, as the claim states it: a CommandResponse that send_command returns
\* has the id of the Command that was written, whatever the peer replied.
C10_ResponseIdIsCommandId ==
    (conn.op = "send_command" /\ conn.r.ok) => conn.r.v.id = conn.command.id

\* C11, as the claim states it: a CommandResponse that send_command returns is
\* either a success without error, or a failure with an error and without data.
C11_SuccessOrFailure ==
    (conn.op = "send_command" /\ conn.r.ok) =>
        \/ conn.r.v.success /\ ~conn.r.v.error.some
        \/ ~conn.r.v.success /\ conn.r.v.error.some /\ ~conn.r.v.data.some

\* The peer answered the command with exactly one well-formed envelope m.
AnsweredWith(m) ==
    /\ conn.op = "send_command"
    /\ conn.listener \in Up
    /\ conn.peer.takes
    /\ conn.peer.bytes = Frame(m)

\* C12: when the peer answers a command with a well-formed envelope whose kind
\* is ping, pong or command, with or without a payload, send_command returns
\* ProtocolError("unexpected response type").
C12_WrongKindIsProtocolError ==
    \A m \in Envelopes :
        (AnsweredWith(m) /\ m.message_type # "response") =>
            conn.r = Err("ProtocolError", "unexpected response type")

\* A pong envelope that carries what would be a valid response payload.
C12_Witness ==
    /\ AnsweredWith(IpcMessage("pong", Some(JObj([id |-> JStr("cmd-1"), success |-> JBool(TRUE)]))))
    /\ conn.r = Err("ProtocolError", "unexpected response type")

\* The first frame of the peer is a response envelope whose payload member is
\* null or is not there.
NoPayload(bytes) ==
    bytes \in {Frame(IpcMessage("response", None)),
               <<LBrace, Member("type", JStr("response")), RBrace, MESSAGE_DELIMITER>>}

\* C13: when the peer answers a command with a response envelope whose payload
\* is null or absent, send_command returns a ProtocolError ("missing response
\* payload") and no CommandResponse.
C13_MissingPayloadIsProtocolError ==
    (conn.op = "send_command" /\ conn.listener \in Up /\ conn.peer.takes
        /\ NoPayload(conn.peer.bytes)) =>
            conn.r = Err("ProtocolError", "missing response payload")

\* A response envelope written without a payload member.
C13_Witness ==
    /\ conn.op = "send_command"
    /\ conn.peer.takes
    /\ conn.peer.bytes = <<LBrace, Member("type", JStr("response")), RBrace, MESSAGE_DELIMITER>>
    /\ conn.r = Err("ProtocolError", "missing response payload")

-----------------------------------------------------------------------------
(* Reading the frame.                                                      *)

\* C14, as the claim states it: when the peer accepts the connection and closes
\* it without sending any byte, send_command returns
\* ProtocolError("empty response").
C14_ClosedWithoutBytes ==
    (conn.op = "send_command" /\ conn.listener \in Up
        /\ conn.peer.bytes = <<>> /\ conn.peer.eof) =>
            conn.r = Err("ProtocolError", "empty response")

\* C14, as the code has it: when the peer closes without sending any byte,
\* send_command returns ProtocolError("empty response") if the peer took the
\* command envelope, and the io::Error of the write if it closed before.
C14_ClosedWithoutBytesAfterWrite ==
    (conn.op = "send_command" /\ conn.listener \in Up
        /\ conn.peer.bytes = <<>> /\ conn.peer.eof) =>
            /\ conn.peer.takes => conn.r = Err("ProtocolError", "empty response")
            /\ ~conn.peer.takes => (~conn.r.ok /\ conn.r.kind = "IoError")

\* The peer took the command and closed: empty response.
C14_Witness ==
    /\ conn.op = "send_command"
    /\ conn.listener = "rogue"
    /\ conn.peer.takes /\ conn.peer.bytes = <<>> /\ conn.peer.eof
    /\ conn.r = Err("ProtocolError", "empty response")

\* The peer sent bytes and closed before any delimiter.
Truncated(peer) ==
    /\ peer.takes
    /\ Len(peer.bytes) > 0
    /\ \A i \in 1..Len(peer.bytes) : peer.bytes[i] # MESSAGE_DELIMITER
    /\ peer.eof

\* C15: when the peer sends one or more bytes and closes before any delimiter,
\* read_message returns ProtocolError("missing message delimiter") in whatever
\* pieces the bytes arrive, and ping and send_command return that error: no
\* pong and no CommandResponse comes of bytes that would decode.
C15_TruncatedIsProtocolError ==
    (conn.op \in {"ping", "send_command", "read_message"} /\ Truncated(conn.peer)
        /\ (conn.op \in {"ping", "send_command"} => conn.listener \in Up)) =>
            /\ conn.r = Err("ProtocolError", "missing message delimiter")
            /\ conn.op = "ping" => ~conn.alive

\* A probe whose peer sent a whole pong envelope but no delimiter.
C15_Witness ==
    /\ conn.op = "ping"
    /\ conn.listener = "rogue"
    /\ Truncated(conn.peer)
    /\ conn.peer.bytes = to_vec(IpcMessage("pong", None))
    /\ conn.r = Err("ProtocolError", "missing message delimiter")

\* C16: read_message succeeds exactly when the stream holds a delimiter, and
\* then returns the bytes before the first delimiter, unchanged and without
\* the delimiter, in whatever pieces the stream arrives.
C16_FrameIsBytesBeforeFirstDelimiter ==
    conn.op = "read_message" =>
        LET bytes == conn.peer.bytes
            firsts == {d \in 1..Len(bytes) :
                        /\ bytes[d] = MESSAGE_DELIMITER
                        /\ \A k \in 1..(d - 1) : bytes[k] # MESSAGE_DELIMITER}
        IN  /\ conn.r.ok <=> firsts # {}
            /\ conn.r.ok => \A d \in firsts : conn.r.v = [k \in 1..(d - 1) |-> bytes[k]]

\* Two frames on the stream, the first arriving in three pieces: the first
\* frame is returned.
C16_Witness ==
    /\ conn.op = "read_message"
    /\ conn.peer.bytes = Frame(IpcMessage("pong", None)) \o Frame(IpcMessage("ping", None))
    /\ conn.peer.cuts = {1, 3}
    /\ conn.r = Ok(to_vec(IpcMessage("pong", None)))

-----------------------------------------------------------------------------
(* The codec.                                                              *)

\* The frame is not one JSON object, or has no "type" member, or a "type" that
\* is none of the four kinds.
Malformed(data) ==
    \/ Len(data) < 2
    \/ data[1] # LBrace
    \/ data[Len(data)] # RBrace
    \/ \E i \in 2..(Len(data) - 1) : data[i].t # "member"
    \/ \A i \in 2..(Len(data) - 1) : data[i].k # "type"
    \/ \E i \in 2..(Len(data) - 1) :
            data[i].k = "type" /\ data[i].v \notin {JStr(ty) : ty \in IpcMessageType}

\* C17, as the claim states it: decoding a frame that is not valid text, that
\* has no discriminant, or whose discriminant is unknown, fails with a
\* ProtocolError, the error whose exit code is 76.
C17_MalformedIsProtocolError ==
    (conn.op = "deserialize_message" /\ Malformed(conn.data)) =>
        /\ ~conn.r.ok
        /\ conn.r.kind = "ProtocolError"
        /\ exit_code(conn.r) = 76

\* C18, as the claim states it: for every Command, encoding its envelope,
\* stripping the delimiter and decoding gives back the envelope and the
\* Command, equal in all fields.
C18_RoundTrip ==
    conn.op = "round_trip" =>
        /\ conn.decoded = Ok(conn.message)
        /\ conn.back = Ok(conn.command)

\* C18, as the code has it: the envelope comes back equal for every Command,
\* and so does the Command, every kind, with and without profile, with params
\* absent or any value but null; params that are present and null come back
\* absent.
C18_RoundTripButNullParams ==
    conn.op = "round_trip" =>
        /\ conn.decoded = Ok(conn.message)
        /\ conn.command.params # Some(JNull) => conn.back = Ok(conn.command)
        /\ conn.command.params = Some(JNull) =>
                conn.back = Ok([conn.command EXCEPT !.params = None])

\* A tab_new command with a profile and with params that hold a null member.
C18_Witness ==
    /\ conn.op = "round_trip"
    /\ conn.command.command_type = "TabNew"
    /\ conn.command.profile = Some("work")
    /\ conn.command.params = Some(JObj([ref |-> JStr("e1"), text |-> JNull]))
    /\ conn.message.payload.v.o.type = JStr("tab_new")
    /\ conn.back = Ok(conn.command)

\* C19: the bytes serialize_message returns for an envelope end with a
\* newline and hold no other newline, also when strings of the envelope hold
\* newlines; in tokens, the delimiter is the last token and the only one.
C19_OneDelimiterAtTheEnd ==
    conn.op = "serialize_message" =>
        /\ conn.r.ok
        /\ Len(conn.r.v) > 0
        /\ \A i \in 1..Len(conn.r.v) : (conn.r.v[i] = MESSAGE_DELIMITER) <=> (i = Len(conn.r.v))
        /\ Len(conn.text) > 0
        /\ \A i \in 1..Len(conn.text) : (conn.text[i] = "\n") <=> (i = Len(conn.text))

\* A type command whose text and profile hold newlines.
C19_Witness ==
    /\ conn.op = "serialize_message"
    /\ conn.message.payload.some
    /\ conn.message.payload.v = command_to_value(
            Command("cmd-1", DEFAULT_SESSION_NAME, Some("line one\nline two"), "Type",
                    Some(JObj([ref |-> JStr("e1"), text |-> JStr("say \"hi\"\n")])),
                    "2026-01-01T00:00:00Z"))
    /\ conn.text[Len(conn.text)] = "\n"
    /\ \E i \in 1..(Len(conn.text) - 1) : conn.text[i] = "\\" /\ conn.text[i + 1] = "n"

-----------------------------------------------------------------------------
(* The dispatcher.                                                         *)

\* C20: an invocation calls send_command at most once and writes at most one
\* command envelope; when the exchange fails, whether in connect, write, read,
\* decode or on a wrong kind, run returns that same error and the invocation
\* is done.
C20_OneCommandNoRetry ==
    \A p \in Procs :
        /\ written[p] <= 1
        /\ dispatch[p].calls <= 1
        /\ written[p] <= dispatch[p].calls
        /\ (dispatch[p].r.some /\ ~dispatch[p].r.v.ok) =>
                (pc[p] = "done" /\ result[p] = dispatch[p].r)

\* An exchange that failed after its envelope was written, on a reply of the
\* wrong kind.
C20_Witness ==
    /\ dispatch[1] = [calls |-> 1, r |-> Some(Err("ProtocolError", "unexpected response type"))]
    /\ written[1] = 1
    /\ result[1] = Some(Err("ProtocolError", "unexpected response type"))
    /\ pc[1] = "done"

-----------------------------------------------------------------------------
-----------------------------------------------------------------------------
\* C22: every probe and every exchange returns, on both platforms, even when
\* the peer accepts the connection and then never replies: the connect, the
\* write and the read each have a deadline.
C22_EveryOperationReturns ==
    conn.op = "wait" =>
        /\ conn.returns
        /\ conn.wrote => conn.io # None

-----------------------------------------------------------------------------
\* C23: when the command was written and no reply frame arrives within the
\* command timeout, send_command fails with CommandTimeout, exit code 1.
C23_NoReplyIsCommandTimeout ==
    (conn.op = "send_command" /\ conn.wrote /\ ReadBlocks(conn.peer)) =>
        /\ ~conn.r.ok
        /\ conn.r.kind = "CommandTimeout"
        /\ exit_code(conn.r) = 1

-----------------------------------------------------------------------------
-----------------------------------------------------------------------------
\* C25: a command invocation ends with DaemonNotRunning only when
\* ensure_daemon_running failed; once it has returned Ok, no later step of the
\* invocation reports DaemonNotRunning, whatever the daemon does between the
\* probe and the exchange.
C25_NotRunningOnlyFromEnsure ==
    \A p \in Procs :
        (/\ cli[p] # "ping"
         /\ result[p] # None
         /\ ~result[p].v.ok
         /\ result[p].v.kind = "DaemonNotRunning") => ensure[p] = "err"

-----------------------------------------------------------------------------
\* C26: an invocation that fails with InvalidArguments has done nothing of
\* the IPC before: it has sent no probe, opened no connection, spawned no
\* daemon and written no command.
C26_InvalidArgumentsBeforeIpc ==
    \A p \in Procs :
        (/\ result[p] # None
         /\ ~result[p].v.ok
         /\ result[p].v.kind = "InvalidArguments") =>
            /\ ensure[p] = "none"
            /\ ponged[p] = "no"
            /\ link[p] = NoStream
            /\ spawned[p] = 0
            /\ written[p] = 0

-----------------------------------------------------------------------------
\* C27: a session name that fails validate_session_name makes the invocation
\* fail with InvalidSession, and is the sessionId of no Command written to
\* the channel, whether it came from the flag, the environment variable or
\* the default.
C27_InvalidSessionIsNotWritten ==
    (conn.op = "dispatch" /\ ~validate_session_name(conn.session_id)) =>
        /\ ~conn.wrote
        /\ ~conn.r.ok
        /\ conn.r.kind = "InvalidSession"

-----------------------------------------------------------------------------
\* C28: when send_command returned a CommandResponse, the invocation succeeds
\* with exit code 0 iff response.success; otherwise it fails with
\* CommandFailed, exit code 1, carrying the error text of the response, or
\* "Unknown error" when it has none. send_command returned the response as
\* Ok whatever its success member.
C28_SuccessDecidedByRun ==
    \A p \in Procs :
        (dispatch[p].r # None /\ dispatch[p].r.v.ok) =>
            LET response == dispatch[p].r.v.v
                res == result[p].v
            IN  /\ printed[p] = Some(response)
                /\ res.ok <=> response.success
                /\ main(res) = 0 <=> response.success
                /\ ~response.success =>
                    /\ res.kind = "CommandFailed"
                    /\ main(res) = 1
                    /\ response.error # None => res.msg = response.error.v
                    /\ response.error = None => res.msg = "Unknown error"

\* A response with success false and no error text: CommandFailed("Unknown error").
C28_Witness ==
    \E p \in Procs :
        /\ dispatch[p].r # None
        /\ dispatch[p].r.v.ok
        /\ ~dispatch[p].r.v.v.success
        /\ dispatch[p].r.v.v.error = None
        /\ result[p] = Some(Err("CommandFailed", "Unknown error"))

-----------------------------------------------------------------------------
\* The variants of CliError, and the failure class of each in the taxonomy;
\* SerializationError is in none of the seven.
CliErrors ==
    {"DaemonNotRunning", "ConnectionFailed", "ConnectionTimeout", "CommandFailed",
     "CommandTimeout", "InvalidArguments", "InvalidSession", "ProtocolError",
     "IoError", "SerializationError"}

FailureClass(kind) ==
    CASE kind = "DaemonNotRunning" -> "daemon unreachable"
      [] kind \in {"ConnectionFailed", "ConnectionTimeout"} -> "connection"
      [] kind \in {"CommandFailed", "CommandTimeout"} -> "command"
      [] kind = "InvalidArguments" -> "invalid arguments"
      [] kind = "InvalidSession" -> "invalid session"
      [] kind = "ProtocolError" -> "protocol error"
      [] kind = "IoError" -> "i/o error"
      [] kind = "SerializationError" -> "serialization"

\* C29: the exit code is 0 exactly when the invocation succeeded, the failure
\* classes have pairwise distinct nonzero codes, and the exit code of a failed
\* invocation is the code of no error of another class.
C29_ExitCodeIdentifiesClass ==
    \A p \in Procs :
        result[p] # None =>
            LET res == result[p].v
            IN  /\ main(res) = 0 <=> res.ok
                /\ ~res.ok =>
                    \A kind \in CliErrors :
                        exit_code([kind |-> kind]) = main(res)
                            => FailureClass(kind) = FailureClass(res.kind)

-----------------------------------------------------------------------------
\* C30: CommandBuilder::build leaves params absent iff the raw params are an
\* object without fields; every other raw value is the params of the Command,
\* unchanged; and the command envelope written has no params member that is
\* an empty object: it has the member iff the Command has params, with the
\* raw value.
C30_EmptyObjectParamsAreAbsent ==
    conn.op = "build" =>
        LET empty == conn.raw = JObj(<<>>)
            payload == conn.frame[3].v
        IN  /\ conn.command.params = None <=> empty
            /\ ~empty => conn.command.params = Some(conn.raw)
            /\ conn.frame[3].k = "payload"
            /\ payload = conn.value
            /\ "params" \in DOMAIN payload.o <=> ~empty
            /\ "params" \in DOMAIN payload.o =>
                /\ payload.o.params = conn.raw
                /\ payload.o.params # JObj(<<>>)

\* A null handed to the builder is the params of the Command and of the
\* envelope.
C30_Witness ==
    /\ conn.op = "build"
    /\ conn.raw = JNull
    /\ conn.command.params = Some(JNull)
    /\ "params" \in DOMAIN conn.value.o

-----------------------------------------------------------------------------
-----------------------------------------------------------------------------
-----------------------------------------------------------------------------
\* C33: the process start_daemon spawned has none of its standard streams
\* connected to the CLI, and once the CLI process has exited, with whatever
\* result, it is running as it was spawned.
C33_DaemonOutlivesCli ==
    \A p \in Procs :
        child[p].state # "none" =>
            /\ child[p].stdin = "null"
            /\ child[p].stdout = "null"
            /\ child[p].stderr = "null"
            /\ child[p].session # "cli"
            /\ exited[p] => child[p].state = "running"

\* The CLI exited after a startup timeout and the process it spawned runs on.
C33_Witness ==
    \E p \in Procs :
        /\ exited[p]
        /\ spawned[p] = 1
        /\ child[p].state = "running"
        /\ result[p] = Some(Err("DaemonNotRunning", "daemon failed to start within timeout"))

-----------------------------------------------------------------------------
\* The state of the supervisor of an invocation, by where ensure_daemon_running
\* is: not called yet, past its first probe and not returned, returned Ok,
\* returned an error. A first probe that returns is one step of the model, so
\* Probing is passed through within the step that leaves Unknown; a first probe
\* that does not return stays in Probing.
SupervisorState(p) ==
    IF ~Ensures(p) \/ pc[p] = "run" THEN "Unknown"
    ELSE IF pc[p] = "first_probe_hung" THEN "Probing"
    ELSE IF ensure[p] = "ok" THEN "Alive"
    ELSE IF ensure[p] = "err" THEN "Failed"
    ELSE "Starting"

\* C34: the state of the supervisor changes only from Unknown, through
\* Probing, to Alive or to Starting, and from Starting to Alive or to Failed;
\* Alive and Failed are left by no step; and Starting is entered only by a
\* step in which the first probe read no pong, with no process spawned yet.
C34_SupervisorTransitions ==
    [][\A p \in Procs :
        LET from == SupervisorState(p)
            to == SupervisorState(p)'
        IN  /\ from # to =>
                <<from, to>> \in {<<"Unknown", "Probing">>,
                                  <<"Unknown", "Alive">>, <<"Unknown", "Starting">>,
                                  <<"Starting", "Alive">>, <<"Starting", "Failed">>}
            /\ (from # "Starting" /\ to = "Starting") =>
                /\ probes'[p] = 1
                /\ ponged'[p] = "no"
                /\ spawned[p] = 0
                /\ pc'[p] = "start_daemon"]_vars

\* An invocation in Failed that came through Starting and its polling loop.
C34_Witness ==
    /\ SupervisorState(1) = "Failed"
    /\ spawned[1] = 1
    /\ elapsed[1] > DAEMON_STARTUP_TIMEOUT_MS

-----------------------------------------------------------------------------
\* The errors of start_daemon: find_daemon_executable found no executable, or
\* Command::spawn failed.
StartErrors ==
    { start_daemon(adjacent, in_path, spawn_ok) :
        adjacent \in BOOLEAN, in_path \in BOOLEAN, spawn_ok \in BOOLEAN }
    \ {Ok(Unit)}

\* C35: when the first probe failed and start_daemon failed (no executable
\* found, or the spawn refused), ensure has returned DaemonNotRunning without
\* the polling loop: the first probe is the only one, no time was spent
\* waiting, and no process was spawned; and so it stays.
C35_StartFailureReturnsAtOnce ==
    \A p \in Procs :
        (Ensures(p) /\ result[p] \in {Some(e) : e \in StartErrors}) =>
            /\ ensure[p] = "err"
            /\ result[p].v.kind = "DaemonNotRunning"
            /\ pc[p] = "done"
            /\ probes[p] = 1
            /\ ponged[p] = "no"
            /\ elapsed[p] = 0
            /\ wake[p] = 0
            /\ spawned[p] = 0
            /\ child[p] = NoChild

\* start_daemon failed after a first probe that found nothing at the address,
\* and the CLI has exited.
C35_Witness ==
    /\ Ensures(1)
    /\ result[1] \in {Some(e) : e \in StartErrors}
    /\ exited[1]

-----------------------------------------------------------------------------
\* ensure_daemon_running has returned, with Ok or with DaemonNotRunning.
EnsureReturned(p) ==
    \/ ensure[p] = "ok"
    \/ /\ ensure[p] = "err"
       /\ result[p].some
       /\ result[p].v.kind = "DaemonNotRunning"

\* The probe ensure is in does not return: its read blocks on a stream that
\* has no read timeout.
ProbeNeverReturns(p) == pc[p] \in {"first_probe_hung", "poll_hung"}

\* The longest the polling loop lasts: a probe begun just before the deadline,
\* ended by its read timeout, and the sleep after it.
LongestPolling ==
    DAEMON_STARTUP_TIMEOUT_MS + connection_timeout_ms + DAEMON_POLL_INTERVAL_MS

\* C36: ensure returns in every execution, with Ok or with DaemonNotRunning,
\* whatever listens at the address, a listener that refuses connections and
\* one that accepts them and never replies included: while it has not
\* returned it is in no probe that never returns, and its polling loop has
\* lasted no longer than the deadline, one probe and one sleep.
C36_EnsureTerminates ==
    \A p \in Procs :
        (Ensures(p) /\ ~EnsureReturned(p)) =>
            /\ ~ProbeNeverReturns(p)
            /\ elapsed[p] <= LongestPolling

-----------------------------------------------------------------------------
\* The daemon executable is in a directory: the file of the daemon's name, or
\* on Windows the file of that name with the .exe extension.
DaemonIn(target, dir) ==
    \/ DAEMON_EXECUTABLE \in dir
    \/ target = "windows" /\ with_exe(DAEMON_EXECUTABLE) \in dir

\* C37: discovery returns the file next to the running binary (whose path the
\* system reports) whenever it exists, whatever PATH holds; when it does not
\* exist, the daemon's name if a directory of PATH holds it; and fails with
\* DaemonNotRunning when neither.
C37_AdjacentThenPath ==
    conn.op = "find_daemon_executable" =>
        LET adjacent == conn.current_exe /\ DaemonIn(conn.platform, conn.beside)
            in_path == \E dir \in conn.path_dirs : DaemonIn(conn.platform, dir)
        IN  /\ adjacent => conn.r = Ok("adjacent")
            /\ (~adjacent /\ in_path) => conn.r = Ok(DAEMON_EXECUTABLE)
            /\ (~adjacent /\ ~in_path) =>
                    ~conn.r.ok /\ conn.r.kind = "DaemonNotRunning"

-----------------------------------------------------------------------------
\* C38: every frame the client writes is one envelope and its delimiter, and
\* the envelope is a ping with a null payload (from ping) or a command whose
\* payload is a Command object (from send_command); never a pong, a response,
\* or a command without a payload.
C38_OnlyPingAndCommandFrames ==
    (conn.op \in {"ping", "send_command", "dispatch"} /\ conn.wrote) =>
        LET n == Len(conn.frame)
            message == deserialize_message(SubSeq(conn.frame, 1, n - 1))
        IN  /\ conn.frame[n] = MESSAGE_DELIMITER
            /\ message.ok
            /\ IF conn.op = "ping"
               THEN /\ message.v.message_type = "ping"
                    /\ Members(SubSeq(conn.frame, 1, n - 1), "payload") = {3}
                    /\ conn.frame[3].v = JNull
               ELSE /\ message.v.message_type = "command"
                    /\ message.v.payload.some
                    /\ IsObj(message.v.payload.v)
                    /\ command_from_value(message.v.payload.v).ok

\* A frame of the client written to a listener that took it and did not
\* answer it as the daemon does.
C38_Witness ==
    /\ conn.op \in {"ping", "send_command"}
    /\ conn.wrote
    /\ conn.listener = "rogue"
    /\ ~conn.r.ok

-----------------------------------------------------------------------------
\* C39: whenever ensure_daemon_running returned an error, the error is a
\* DaemonNotRunning, and the process exits with code 2 and nothing written:
\* what went wrong inside a probe (connection, protocol, I/O, serialization)
\* is not what ensure returns.
C39_EnsureErrorsAreNotRunning ==
    \A p \in Procs :
        (Ensures(p) /\ ensure[p] = "err") =>
            /\ result[p].some
            /\ ~result[p].v.ok
            /\ result[p].v.kind = "DaemonNotRunning"
            /\ main(result[p].v) = 2
            /\ written[p] = 0
            /\ ~sent[p].some

\* ensure returned an error after a last probe that connected, wrote its ping
\* and read something other than a pong.
C39_Witness ==
    /\ Ensures(1)
    /\ ensure[1] = "err"
    /\ link[1] = [by |-> "ping", sends |-> 1, reads |-> 1]
    /\ ponged[1] = "no"

-----------------------------------------------------------------------------
\* C40: the ping command makes one probe and leaves the supervisor alone: no
\* ensure, no process spawned, no command built or written; and when it has
\* returned, it returned success, exit code 0, exactly when its probe read a
\* pong.
C40_PingCommandOnlyProbes ==
    \A p \in Procs :
        (cli[p] = "ping" /\ pc[p] # "off") =>
            /\ ensure[p] = "none"
            /\ spawned[p] = 0
            /\ child[p] = NoChild
            /\ written[p] = 0
            /\ ~sent[p].some
            /\ probes[p] <= 1
            /\ link[p].by \in {"none", "ping"}
            /\ pc[p] \in {"run", "ping_hung", "done"}
            /\ pc[p] = "done" =>
                /\ probes[p] = 1
                /\ result[p].some
                /\ result[p].v.ok <=> ponged[p] = "first"
                /\ main(result[p].v) = 0 <=> ponged[p] = "first"

\* The ping command has exited, with success after a pong.
C40_Witness ==
    /\ cli[1] = "ping"
    /\ exited[1]
    /\ ponged[1] = "first"
    /\ result[1] = Some(Ok(Unit))

=============================================================================
